---- MODULE Spec2Model ----
(***************************************************************************)
(* Verification model of shelf (scottschroeder/shelf).                    *)
(*                                                                         *)
(*  - git-jump: build_branches / build_targets (cmd/gitjump/             *)
(*    build_targets.rs and the older cmd/gitjump.rs), GitBranch and       *)
(*    GitCommit ordering (git.rs), DisplayLine::fmt and is_remote_of      *)
(*    (cmd/gitjump/mod.rs).                                                *)
(*  - project scan: GitRepoWalker (scan.rs) driven by scan_groups         *)
(*    (cmd/project.rs).                                                    *)
(*  - selection pipeline: search, its worker thread and the front-end     *)
(*    (cmd/project.rs), jump after build_targets (cmd/gitjump/mod.rs).     *)
(*                                                                         *)
(* Strings are sequences of bytes (Rust compares str bytewise).           *)
(***************************************************************************)
EXTENDS Integers, Sequences, FiniteSets, TLC

\* ------------------------------------------------------------------ bounds
MaxBranches == 2
MaxCommits == 3
MaxTime == 1
MaxListed == 3
MaxDepth == 2
TimeWindow == 2
MaxPanes == 2

\* ------------------------------------------------------------- byte strings
REFS_HEADS == <<114, 101, 102, 115, 47, 104, 101, 97, 100, 115, 47>>
REFS_REMOTES == <<114, 101, 102, 115, 47, 114, 101, 109, 111, 116, 101, 115, 47>>
ORIGIN_SLASH == <<111, 114, 105, 103, 105, 110, 47>>
ORIGIN_HEAD == REFS_REMOTES \o ORIGIN_SLASH \o <<72, 69, 65, 68>>
EMPTY_STR == <<>>
SLASH == <<47>>

RefHeadsA == REFS_HEADS \o <<97>>
RefHeadsB == REFS_HEADS \o <<98>>
RefOriginA == REFS_REMOTES \o ORIGIN_SLASH \o <<97>>
RefOriginBA == REFS_REMOTES \o ORIGIN_SLASH \o <<98, 97>>
RefUpA == REFS_REMOTES \o <<117, 112, 47, 97>>
\* a reference whose name is not valid UTF-8: git2 reports its name as None
RefBadUtf8 == REFS_HEADS \o <<255>>

\* Option<T>: None is the empty sequence, Some(x) the one-element sequence
None == <<>>
Some(x) == <<x>>
Option(S) == {None} \cup {Some(x) : x \in S}
is_some(o) == o # None
unwrap(o) == o[1]

Commits == 1..MaxCommits
Authors == {"me", "other"}

starts_with(s, p) == Len(s) >= Len(p) /\ SubSeq(s, 1, Len(p)) = p
ends_with(s, p) == Len(s) >= Len(p) /\ SubSeq(s, Len(s) - Len(p) + 1, Len(s)) = p
\* str::strip_prefix / str::strip_suffix -> Option<&str>
strip_prefix(s, p) == IF starts_with(s, p) THEN Some(SubSeq(s, Len(p) + 1, Len(s))) ELSE None
strip_suffix(s, p) == IF ends_with(s, p) THEN Some(SubSeq(s, 1, Len(s) - Len(p))) ELSE None

\* str::cmp: lexicographic on bytes
RECURSIVE str_cmp(_, _)
str_cmp(a, b) ==
    IF a = <<>> /\ b = <<>> THEN "Equal"
    ELSE IF a = <<>> THEN "Less"
    ELSE IF b = <<>> THEN "Greater"
    ELSE IF Head(a) < Head(b) THEN "Less"
    ELSE IF Head(a) > Head(b) THEN "Greater"
    ELSE str_cmp(Tail(a), Tail(b))

\* bool::cmp: false < true
bool_cmp(a, b) == IF a = b THEN "Equal" ELSE IF b THEN "Less" ELSE "Greater"

int_cmp(a, b) == IF a < b THEN "Less" ELSE IF a > b THEN "Greater" ELSE "Equal"

\* ----------------------------------------------------------------- git.rs
\* mutant: the reference names compared the wrong way round
GitBranch_cmp_names_reversed(self, other) ==
    IF self.branch_type = "Local" /\ other.branch_type = "Remote" THEN "Less"
    ELSE IF self.branch_type = "Remote" /\ other.branch_type = "Local" THEN "Greater"
    ELSE IF str_cmp(other.ref_name, self.ref_name) # "Equal"
         THEN str_cmp(other.ref_name, self.ref_name)
    ELSE bool_cmp(self.head, other.head)

\* impl Ord for GitBranch
GitBranch_cmp(self, other) ==
    IF self.branch_type = "Local" /\ other.branch_type = "Remote" THEN "Less"
    ELSE IF self.branch_type = "Remote" /\ other.branch_type = "Local" THEN "Greater"
    ELSE IF str_cmp(self.ref_name, other.ref_name) # "Equal"
         THEN str_cmp(self.ref_name, other.ref_name)
    ELSE bool_cmp(self.head, other.head)

\* mutant: commits ordered by id
GitCommit_cmp_by_id(self, other) == int_cmp(self.id, other.id)

\* impl Ord for GitCommit: the commit time only
GitCommit_cmp(self, other) == int_cmp(self.time, other.time)

\* impl Ord for GitTarget
GitTarget_cmp(self, other) == GitCommit_cmp(self.commit, other.commit)

\* t.branches.sort(): slice::sort is stable; insertion behind every element
\* that does not compare Greater keeps equal elements in their order.
RECURSIVE insert_branch(_, _)
insert_branch(x, s) ==
    IF s = <<>> THEN <<x>>
    ELSE IF GitBranch_cmp(s[Len(s)], x) # "Greater" THEN Append(s, x)
    ELSE Append(insert_branch(x, SubSeq(s, 1, Len(s) - 1)), s[Len(s)])

RECURSIVE sort_branches(_)
sort_branches(bs) ==
    IF bs = <<>> THEN <<>>
    ELSE insert_branch(bs[Len(bs)], sort_branches(SubSeq(bs, 1, Len(bs) - 1)))

\* results.sort_by(|a, b| b.cmp(a)): stable, descending
RECURSIVE insert_target(_, _)
insert_target(x, s) ==
    IF s = <<>> THEN <<x>>
    ELSE IF GitTarget_cmp(x, s[Len(s)]) # "Greater" THEN Append(s, x)
    ELSE Append(insert_target(x, SubSeq(s, 1, Len(s) - 1)), s[Len(s)])

RECURSIVE sort_targets(_)
sort_targets(ts) ==
    IF ts = <<>> THEN <<>>
    ELSE insert_target(ts[Len(ts)], sort_targets(SubSeq(ts, 1, Len(ts) - 1)))

\* --------------------------------------------------------- git-jump state
VARIABLES
    repo,        \* the repository: branches as enumerated, HEAD, commit graph,
                 \* the commit the working tree was last checked out from
    args,        \* argparse::GitJump fields and the TargetFilter built from them
    unit,        \* which build_targets runs: build_targets.rs or gitjump.rs
    pc,          \* position inside build_targets
    idx,         \* position of the `for branch_result in repo.branches(None)` loop
    target_map,  \* HashMap<Oid, GitTarget> filled by build_branches
    results      \* Vec<GitTarget> returned by build_targets

jump_vars == <<repo, args, unit, pc, idx, target_map, results>>

\* ---- the git2 queries the code makes, answered from `repo`
is_utf8(s) == \A i \in 1..Len(s) : s[i] < 128

\* git2::Reference::name(): None when the name is not valid UTF-8
reference_name(item) == IF is_utf8(item.ref) THEN Some(item.ref) ELSE None

\* the BranchType that repo.branches(None) reports with the branch
branch_type_of(item) == IF starts_with(item.ref, REFS_HEADS) THEN "Local" ELSE "Remote"

\* git2::Branch::name(): the shorthand, None when not valid UTF-8
branch_name(item) ==
    IF ~is_utf8(item.ref) THEN None
    ELSE IF starts_with(item.ref, REFS_HEADS) THEN strip_prefix(item.ref, REFS_HEADS)
    ELSE strip_prefix(item.ref, REFS_REMOTES)

\* git2::Branch::is_head()
is_head(r, item) == r.head = Some(item.ref)

\* impl Display for GitRef: name().unwrap_or("")
GitRef_to_string(item) == IF is_some(reference_name(item)) THEN item.ref ELSE EMPTY_STR

\* GitCommit::from_branch: peel_to_commit, then id, time and author
from_branch(r, item) ==
    IF item.tip = None THEN None
    ELSE Some([id |-> unwrap(item.tip),
               time |-> r.time[unwrap(item.tip)],
               author |-> r.author[unwrap(item.tip)]])

\* git2::Branch::upstream(): the tracked branch, when configured and present
upstream_of(r, item) ==
    IF item.upstream = None THEN None
    ELSE IF \E i \in 1..Len(r.branches) :
                r.branches[i].ok /\ r.branches[i].ref = unwrap(item.upstream)
         THEN Some(CHOOSE u \in {r.branches[i] : i \in 1..Len(r.branches)} :
                       u.ok /\ u.ref = unwrap(item.upstream))
    ELSE None

\* ancestors of a commit, the commit included
RECURSIVE ancestors(_, _)
ancestors(r, c) ==
    IF r.parent[c] = None THEN {c} ELSE {c} \cup ancestors(r, unwrap(r.parent[c]))

\* git2::Repository::merge_base: Err (None) when the histories are unrelated
merge_base(r, a, b) ==
    LET common == ancestors(r, a) \cap ancestors(r, b)
    IN IF common = {} THEN None
       ELSE Some(CHOOSE c \in common : \A d \in common : d \in ancestors(r, c))

\* repo.refname_to_id(ORIGIN_HEAD).ok()
refname_to_id(r, name) ==
    IF \E i \in 1..Len(r.branches) :
           r.branches[i].ok /\ r.branches[i].ref = name /\ is_some(r.branches[i].tip)
    THEN (CHOOSE u \in {r.branches[i] : i \in 1..Len(r.branches)} :
              u.ok /\ u.ref = name /\ is_some(u.tip)).tip
    ELSE None

\* git2::Repository::find_branch(name, branch_type): Err (None) when there is
\* no such branch
find_branch(r, name, branch_type) ==
    LET found == {i \in DOMAIN r.branches :
                     /\ r.branches[i].ok
                     /\ branch_name(r.branches[i]) = Some(name)
                     /\ branch_type_of(r.branches[i]) = branch_type}
    IN IF found = {} THEN None ELSE Some(r.branches[CHOOSE i \in found : TRUE])

\* git2::Repository::find_object(oid, Some(ObjectType::Commit))
find_object(r, oid) == IF oid \in DOMAIN r.parent THEN Some(oid) ELSE None

\* git2::Repository::checkout_tree(object, None): the working tree is made the
\* tree of the commit; Err (None) when local changes are in its way
checkout_tree(r, commit) ==
    IF r.dirty THEN None ELSE Some([r EXCEPT !.work_tree = Some(commit)])

\* git2::Repository::set_head(refname), as the call is made: HEAD is handed the
\* reference name
set_head(r, refname) == [r EXCEPT !.head = Some(refname), !.head_detached = None]

\* ------------------------------------------- cmd/gitjump/build_targets.rs
\* mutant: refs/remotes/origin/HEAD is not rejected
include_branch_keeps_origin_head(filter, item, c) ==
    IF is_some(filter.branch_author) /\ c.author # unwrap(filter.branch_author) THEN FALSE
    ELSE TRUE

\* TargetFilter::include_branch
include_branch(filter, item, c) ==
    IF is_some(filter.branch_author) /\ c.author # unwrap(filter.branch_author) THEN FALSE
    ELSE IF is_some(reference_name(item)) /\ unwrap(reference_name(item)) = ORIGIN_HEAD
         THEN FALSE
    ELSE TRUE

\* mutant: Ahead and Behind exchanged
branch_status_swapped(r, item, c) ==
    LET up == upstream_of(r, item)
        upstream_commit == IF up = None THEN None ELSE from_branch(r, unwrap(up))
    IN IF upstream_commit = None THEN "Unique"
       ELSE IF unwrap(upstream_commit).id = c.id THEN "Match"
       ELSE IF is_some(merge_base(r, unwrap(upstream_commit).id, c.id))
            THEN IF unwrap(merge_base(r, unwrap(upstream_commit).id, c.id))
                        = unwrap(upstream_commit).id
                 THEN "Behind"
                 ELSE "Ahead"
       ELSE "Behind"

\* build_branches: the status of a branch whose tip is the commit c
branch_status(r, item, c) ==
    LET up == upstream_of(r, item)
        upstream_commit == IF up = None THEN None ELSE from_branch(r, unwrap(up))
    IN IF upstream_commit = None THEN "Unique"
       ELSE IF unwrap(upstream_commit).id = c.id THEN "Match"
       ELSE IF is_some(merge_base(r, unwrap(upstream_commit).id, c.id))
            THEN IF unwrap(merge_base(r, unwrap(upstream_commit).id, c.id))
                        = unwrap(upstream_commit).id
                 THEN "Ahead"
                 ELSE "Behind"
       ELSE "Behind"

\* build_branches: what one iteration of the loop does with its branch
\*   "abort"  branch_result? returns the error
\*   "skip"   one of the `continue`s
\*   "insert" the branch is pushed on its Target
branch_outcome(r, filter, item) ==
    IF ~item.ok THEN "abort"
    ELSE IF branch_name(item) = None THEN "skip"
    ELSE IF from_branch(r, item) = None THEN "skip"
    ELSE IF ~include_branch(filter, item, unwrap(from_branch(r, item))) THEN "skip"
    ELSE "insert"

\* build_branches: the GitBranch built for an included branch
make_branch(r, item, c) ==
    [name |-> unwrap(branch_name(item)),
     upstream |-> IF upstream_of(r, item) = None THEN None
                  ELSE Some(GitRef_to_string(unwrap(upstream_of(r, item)))),
     ref_name |-> GitRef_to_string(item),
     branch_type |-> branch_type_of(item),
     head |-> is_head(r, item),
     status |-> branch_status(r, item, c)]

\* mutant: map.insert, a later branch replaces the Target of its commit
entry_push_replaces(map, c, branch) ==
    [k \in DOMAIN map \cup {c.id} |->
        IF k = c.id
        THEN [commit |-> c, branches |-> <<branch>>,
              is_merged |-> FALSE, is_primary |-> FALSE]
        ELSE map[k]]

\* build_branches: map.entry(c.id).or_insert(GitTarget {..}).branches.push(branch)
entry_push(map, c, branch) ==
    IF c.id \in DOMAIN map
    THEN [map EXCEPT ![c.id].branches = Append(@, branch)]
    ELSE [k \in DOMAIN map \cup {c.id} |->
             IF k = c.id
             THEN [commit |-> c, branches |-> <<branch>>,
                   is_merged |-> FALSE, is_primary |-> FALSE]
             ELSE map[k]]

\* build_branches: the map after one iteration
process_branch(r, filter, map, item) ==
    IF branch_outcome(r, filter, item) = "insert"
    THEN entry_push(map, unwrap(from_branch(r, item)),
                    make_branch(r, item, unwrap(from_branch(r, item))))
    ELSE map

\* mutant: is_merged set from the comparison with the primary tip
annotate_target_merged_is_primary(r, t) ==
    LET primary == refname_to_id(r, ORIGIN_HEAD)
        sorted == [t EXCEPT !.branches = sort_branches(t.branches)]
    IN IF is_some(primary) /\ is_some(merge_base(r, unwrap(primary), t.commit.id))
       THEN [sorted EXCEPT
                !.is_merged = (unwrap(primary) = t.commit.id),
                !.is_primary = (unwrap(primary) = t.commit.id)]
       ELSE sorted

\* build_targets: the closure run on every Target (build_targets.rs:42-52)
annotate_target(r, t) ==
    LET primary == refname_to_id(r, ORIGIN_HEAD)
        sorted == [t EXCEPT !.branches = sort_branches(t.branches)]
    IN IF is_some(primary) /\ is_some(merge_base(r, unwrap(primary), t.commit.id))
       THEN [sorted EXCEPT
                !.is_merged = (unwrap(merge_base(r, unwrap(primary), t.commit.id)) = t.commit.id),
                !.is_primary = (unwrap(primary) = t.commit.id)]
       ELSE sorted

\* gitjump.rs:229-242: the same closure with the truncation
truncate(s, n) == IF Len(s) > n THEN SubSeq(s, 1, n) ELSE s

annotate_target_args(a, r, t) ==
    LET primary == refname_to_id(r, ORIGIN_HEAD)
        sorted == [t EXCEPT !.branches = sort_branches(t.branches)]
        kept == IF ~a.show_all_branches
                THEN [sorted EXCEPT !.branches = truncate(@, 1)]
                ELSE sorted
    IN IF is_some(primary) /\ is_some(merge_base(r, unwrap(primary), t.commit.id))
       THEN [kept EXCEPT
                !.is_merged = (unwrap(merge_base(r, unwrap(primary), t.commit.id)) = t.commit.id),
                !.is_primary = (unwrap(primary) = t.commit.id)]
       ELSE kept

\* HashMap::into_values: the values in an arbitrary order
into_values(map) ==
    {s \in [1..Cardinality(DOMAIN map) -> DOMAIN map] :
        \A i, j \in DOMAIN s : i # j => s[i] # s[j]}

\* ------------------------------------------------- cmd/gitjump/mod.rs
VARIABLES
    target,      \* the GitTarget handed to DisplayLine (None outside rendering)
    shown,       \* what DisplayLine::fmt wrote for it (None before)
    now,         \* chrono::Local::now(), in whole seconds since the epoch
    time_shown   \* what DisplayTime::fmt wrote for the commit time (None before)

display_vars == <<target, shown, now, time_shown>>

RELATIVE_TIME_LOOKBACK_DAYS == 6
RELATIVE_TIME_LOOKBACK_HOURS == 4

\* i64 division as Rust does it: the quotient is truncated toward zero
div_trunc(a, b) == IF a >= 0 THEN a \div b ELSE -((-a) \div b)

\* chrono::Duration::num_seconds / num_minutes / num_hours / num_days
num_seconds(dur) == dur
num_minutes(dur) == div_trunc(num_seconds(dur), 60)
num_hours(dur) == div_trunc(num_seconds(dur), 3600)
num_days(dur) == div_trunc(num_seconds(dur), 86400)

\* mutant: the first comparison lets two whole minutes through
DisplayTime_fmt_two_minutes_in_seconds(secs, at) ==
    LET dur == at - secs
    IN IF num_minutes(dur) <= 2
       THEN [style |-> "seconds_ago", n |-> num_seconds(dur)]
       ELSE IF num_hours(dur) < 2
       THEN [style |-> "minutes_ago", n |-> num_minutes(dur)]
       ELSE IF num_hours(dur) < RELATIVE_TIME_LOOKBACK_HOURS
       THEN [style |-> "hours_ago", n |-> num_hours(dur)]
       ELSE IF num_days(dur) < RELATIVE_TIME_LOOKBACK_DAYS
       THEN [style |-> "weekday_time", n |-> secs]
       ELSE [style |-> "date_time", n |-> secs]

\* DisplayTime::fmt for DisplayTime(secs) read when the clock shows `at`:
\* "-{}s ago", "-{}m ago", "-{}h ago", "%a %I:%M%p" or "%m/%d/%y %I:%M%p"
DisplayTime_fmt(secs, at) ==
    LET dur == at - secs
    IN IF num_minutes(dur) < 2
       THEN [style |-> "seconds_ago", n |-> num_seconds(dur)]
       ELSE IF num_hours(dur) < 2
       THEN [style |-> "minutes_ago", n |-> num_minutes(dur)]
       ELSE IF num_hours(dur) < RELATIVE_TIME_LOOKBACK_HOURS
       THEN [style |-> "hours_ago", n |-> num_hours(dur)]
       ELSE IF num_days(dur) < RELATIVE_TIME_LOOKBACK_DAYS
       THEN [style |-> "weekday_time", n |-> secs]
       ELSE [style |-> "date_time", n |-> secs]

\* mutant: the primary tip is not exempted from the muted colour
branch_color_merged_only(t) == IF ~t.is_merged THEN "Yellow" ELSE "GREY"

\* DisplayLine::branch_color
branch_color(t) == IF t.is_primary \/ ~t.is_merged THEN "Yellow" ELSE "GREY"

\* is_remote_of
is_remote_of(local, inspect) ==
    LET l == strip_prefix(local, REFS_HEADS)
        r == strip_prefix(inspect, REFS_REMOTES)
    IN IF l = None \/ r = None THEN FALSE
       ELSE is_some(strip_suffix(unwrap(r), unwrap(l)))

\* mutant: only the branch rendered last is remembered
RECURSIVE fmt_branches_last_only(_, _, _, _)
fmt_branches_last_only(branches, k, seen, out) ==
    IF k > Len(branches) THEN out
    ELSE IF \E s \in seen : is_remote_of(s, branches[k].ref_name)
         THEN fmt_branches_last_only(branches, k + 1, seen, out)
    ELSE fmt_branches_last_only(branches, k + 1, {branches[k].ref_name},
                                Append(out, [comma |-> k # 1,
                                             star |-> branches[k].head,
                                             name |-> branches[k].name]))

\* DisplayLine::fmt, the loop 'b over target.branches 
\* (positions count from 1 here, so the code's `idx != 0` is `k # 1`)
RECURSIVE fmt_branches(_, _, _, _)
fmt_branches(branches, k, seen, out) ==
    IF k > Len(branches) THEN out
    ELSE IF \E s \in seen : is_remote_of(s, branches[k].ref_name)
         THEN fmt_branches(branches, k + 1, seen, out)
    ELSE fmt_branches(branches, k + 1, seen \cup {branches[k].ref_name},
                      Append(out, [comma |-> k # 1,
                                   star |-> branches[k].head,
                                   name |-> branches[k].name]))

\* DisplayLine::fmt: the branch part of the line
fmt(t) ==
    IF t.branches # <<>>
    THEN [color |-> branch_color(t), branches |-> fmt_branches(t.branches, 1, {}, <<>>)]
    ELSE [color |-> "none", branches |-> <<>>]

\* ===================================================== project scanning
VARIABLES
    fs,          \* the directory tree on disk
    queue,       \* scan_groups: ProjectQueue of (group, parent)
    scan,        \* scan_groups: the group, parent and GitRepoWalker of the scan running
    scan_pc,     \* position inside scan_groups
    sent,        \* the Projects sent on the channel, in order
    visited      \* history: the entries each scan's walker was handed by walkdir

scan_vars == <<fs, queue, scan, scan_pc, sent, visited>>

\* ============================================ the selection pipeline
VARIABLES
    cmd,          \* the command running: "dirs", "preset", "jump", or "scan_groups" alone
    opts,         \* its arguments: tmux_rename (project), the tmux session around it
    directories,  \* search: the ManualDirectory list of the configuration
    send_idx,     \* position of the `for` loop that sends (manual directories, Targets)
    threads,      \* the threads std::thread::spawn has started
    worker_pc,    \* position of the spawned closure
    senders,      \* every send.send(..) call in order: the calling thread, Ok or Err
    log,          \* log::error! / log::warn! lines written
    recv_alive,   \* the channel's receiver has not been dropped
    received,     \* the items the front-end has taken from the channel, in order
    started_at,   \* Len(sent) when select_and_return_first was entered
    main_pc,      \* position of the calling thread
    resp,         \* what select_and_return_first returned
    exit,         \* the command's result: "running", "Ok" or "Err"
    stdout,       \* lines printed with println!
    renamed,      \* names handed to rename_tmux_default_window
    checked_out   \* Targets handed to checkout_target

search_vars == <<cmd, opts, directories, send_idx, threads, worker_pc, senders, log,
                 recv_alive, received, started_at, main_pc, resp, exit, stdout,
                 renamed, checked_out>>

\* --------------------------------------------- the command's environment
VARIABLES
    document,    \* the configuration file as a YAML mapping (None: none read)
    loaded,      \* what load_config returned (None before it is called)
    tmux         \* the TMUX and SHELL variables and the current tmux window

env_vars == <<document, loaded, tmux>>

\* ------------------------------------------------------------ config.rs
\* a YAML mapping is a function from the keys written in the file to their values
has(m, key) == key \in DOMAIN m

\* mutant: a group without `recurse` is taken to recurse
ProjectGroup_deserialize_recurse_by_default(m) ==
    IF ~({"root", "title", "extract"} \subseteq DOMAIN m) THEN None
    ELSE Some([root |-> m.root,
               exclude |-> IF has(m, "exclude") THEN m.exclude ELSE <<>>,
               title |-> m.title,
               extract |-> m.extract,
               recurse |-> IF has(m, "recurse") THEN m.recurse ELSE TRUE])

\* #[derive(Deserialize)] struct ProjectGroup: root, title and extract are
\* required, exclude and recurse are #[serde(default)]
ProjectGroup_deserialize(m) ==
    IF ~({"root", "title", "extract"} \subseteq DOMAIN m) THEN None
    ELSE Some([root |-> m.root,
               exclude |-> IF has(m, "exclude") THEN m.exclude ELSE <<>>,
               title |-> m.title,
               extract |-> m.extract,
               recurse |-> IF has(m, "recurse") THEN m.recurse ELSE FALSE])

\* #[derive(Deserialize)] struct ManualDirectory: path is required, label is
\* #[serde(default)] Option<String>
ManualDirectory_deserialize(m) ==
    IF ~has(m, "path") THEN None
    ELSE Some([path |-> m.path,
               label |-> IF has(m, "label") THEN Some(m.label) ELSE None])

\* #[derive(Deserialize)] struct ShelfConfig: both lists are #[serde(default)];
\* an element that does not deserialize fails the whole document
ShelfConfig_deserialize(doc) ==
    LET ps == IF has(doc, "projects")
              THEN [i \in DOMAIN doc.projects |-> ProjectGroup_deserialize(doc.projects[i])]
              ELSE <<>>
        ds == IF has(doc, "directories")
              THEN [i \in DOMAIN doc.directories |->
                       ManualDirectory_deserialize(doc.directories[i])]
              ELSE <<>>
    IN IF (\A i \in DOMAIN ps : ps[i] # None) /\ (\A i \in DOMAIN ds : ds[i] # None)
       THEN [ok |-> TRUE,
             projects |-> [i \in DOMAIN ps |-> unwrap(ps[i])],
             directories |-> [i \in DOMAIN ds |-> unwrap(ds[i])]]
       ELSE [ok |-> FALSE, projects |-> <<>>, directories |-> <<>>]

\* read_config: File::open(config_path)?, then serde_yaml::from_reader
read_config(file) ==
    IF file = None THEN [ok |-> FALSE, projects |-> <<>>, directories |-> <<>>]
    ELSE ShelfConfig_deserialize(unwrap(file))

\* -------------------------------------------------------------- tmux.rs
\* char::is_whitespace, for the blank and the line feed
is_space(byte) == byte \in {32, 10}

\* str::trim
RECURSIVE trim(_)
trim(str) ==
    IF str = <<>> THEN str
    ELSE IF is_space(str[1]) THEN trim(Tail(str))
    ELSE IF is_space(str[Len(str)]) THEN trim(SubSeq(str, 1, Len(str) - 1))
    ELSE str

\* get_tmux: Some(TmuxHandle) when the TMUX variable is set
get_tmux(t) == t.TMUX

\* TmuxHandle::get_tmux_name: Err (None) when tmux cannot be spawned, else
\* what `tmux display-message -p '#W'` printed, trimmed
get_tmux_name(t) ==
    IF t.server = "no_binary" THEN None
    ELSE IF t.server = "up" THEN Some(trim(t.window_name))
    ELSE Some(trim(EMPTY_STR))

\* TmuxHandle::get_tmux_number: the output of `display-message -p '#I'`
\* parsed as u16; Err (None) when it is not a number
get_tmux_number(t) == IF t.server = "up" THEN Some(t.window_number) ELSE None

\* TmuxHandle::count_tmux_panes: output.trim().split('\n').count(), which is
\* 1 for an empty output
count_tmux_panes(t) ==
    IF t.server = "no_binary" THEN None
    ELSE IF t.server = "up" THEN Some(t.panes)
    ELSE Some(1)

\* TmuxHandle::set_tmux_window_name: `tmux rename-window -t <number> <name>`
set_tmux_window_name(t, window_number, name) ==
    IF t.server = "no_binary" THEN None
    ELSE IF t.server = "up" /\ window_number = t.window_number
    THEN Some([t EXCEPT !.window_name = name])
    ELSE Some(t)

\* TmuxHandle::set_tmux_current_window_name: get_tmux_number()?, then the rename
set_tmux_current_window_name(t, name) ==
    IF get_tmux_number(t) = None THEN None
    ELSE set_tmux_window_name(t, unwrap(get_tmux_number(t)), name)

\* ------------------------------------------- cmd/project.rs: tmux rename
RECURSIVE strip_slashes(_)
strip_slashes(path) ==
    IF path # <<>> /\ path[Len(path)] = 47
    THEN strip_slashes(SubSeq(path, 1, Len(path) - 1))
    ELSE path

RECURSIVE last_component(_)
last_component(path) ==
    IF path = <<>> \/ path[Len(path)] = 47 THEN <<>>
    ELSE Append(last_component(SubSeq(path, 1, Len(path) - 1)), path[Len(path)])

\* Path::file_name, for a path without `.` components: the last component,
\* None for the root, the empty path and a path ending in `..`
file_name(path) ==
    IF strip_slashes(path) = <<>> THEN None
    ELSE IF last_component(strip_slashes(path)) = <<46, 46>> THEN None
    ELSE Some(last_component(strip_slashes(path)))

\* get_default_tmux_window_name: the file name of $SHELL, trimmed
get_default_tmux_window_name(t) ==
    IF t.SHELL = None THEN None
    ELSE IF trim(unwrap(t.SHELL)) = <<>> THEN None
    ELSE file_name(trim(unwrap(t.SHELL)))

\* mutant: DefaultOnly leaves a window alone as soon as it has several panes
rename_tmux_default_window_panes_only(t, name, tmux_rename) ==
    IF ~get_tmux(t) THEN [tmux |-> t, result |-> "Ok", ran |-> FALSE]
    ELSE IF tmux_rename = "DefaultOnly"
            /\ (get_tmux_name(t) = None \/ count_tmux_panes(t) = None)
    THEN [tmux |-> t, result |-> "Err", ran |-> FALSE]
    ELSE IF tmux_rename = "DefaultOnly" /\ unwrap(count_tmux_panes(t)) > 1
    THEN [tmux |-> t, result |-> "Ok", ran |-> FALSE]
    ELSE IF set_tmux_current_window_name(t, name) = None
    THEN [tmux |-> t, result |-> "Err", ran |-> FALSE]
    ELSE [tmux |-> unwrap(set_tmux_current_window_name(t, name)),
          result |-> "Ok", ran |-> TRUE]

\* rename_tmux_default_window: the tmux state it leaves, the Result it returns
\* and whether `tmux rename-window` was run
rename_tmux_default_window(t, name, tmux_rename) ==
    IF ~get_tmux(t) THEN [tmux |-> t, result |-> "Ok", ran |-> FALSE]
    ELSE IF tmux_rename = "DefaultOnly"
            /\ (get_tmux_name(t) = None \/ count_tmux_panes(t) = None)
    THEN [tmux |-> t, result |-> "Err", ran |-> FALSE]
    ELSE IF tmux_rename = "DefaultOnly"
            /\ unwrap(count_tmux_panes(t)) > 1
            /\ (get_default_tmux_window_name(t) = None
                \/ unwrap(get_tmux_name(t)) # unwrap(get_default_tmux_window_name(t)))
    THEN [tmux |-> t, result |-> "Ok", ran |-> FALSE]
    ELSE IF set_tmux_current_window_name(t, name) = None
    THEN [tmux |-> t, result |-> "Err", ran |-> FALSE]
    ELSE [tmux |-> unwrap(set_tmux_current_window_name(t, name)),
          result |-> "Ok", ran |-> TRUE]

\* ---- the environments the commands are run in
NAME_Z == <<122>>
NAME_V == <<118>>
SHELL_Z == <<47, 98, 47, 122>>
\* outside tmux
NoTmux ==
    [TMUX |-> FALSE, server |-> "up", window_number |-> 1, window_name |-> NAME_Z,
     panes |-> 1, SHELL |-> Some(SHELL_Z)]
\* the only pane of a window still named after the shell
DefaultTmux == [NoTmux EXCEPT !.TMUX = TRUE]
\* $SHELL: not set, empty, blank, `/b/z`, ` /b/z`, `z`, `/` and `/b/v`
ShellValues ==
    {None, Some(EMPTY_STR), Some(<<32>>), Some(SHELL_Z), Some(<<32>> \o SHELL_Z),
     Some(NAME_Z), Some(<<47>>), Some(<<47, 98, 47>> \o NAME_V)}
\* the environments a selection is reported in: with or without $TMUX, the
\* tmux server answering, not answering or the binary missing, the window
\* named z or v, with 1..MaxPanes panes
TmuxEnvs ==
    {[TMUX |-> in_session, server |-> srv, window_number |-> 1, window_name |-> name,
      panes |-> n, SHELL |-> sh] :
        in_session \in BOOLEAN, srv \in {"up", "unreachable", "no_binary"},
        name \in {NAME_Z, NAME_V}, n \in 1..MaxPanes, sh \in ShellValues}
EnvIdle ==
    /\ document = None
    /\ loaded = None
    /\ tmux = NoTmux

DOT_GIT == <<46, 103, 105, 116>>
NAME_A == <<97>>
NAME_B == <<98>>
NAME_F == <<102>>
ROOT_DIR == <<47, 114>>
UNKNOWN == <<117, 110, 107, 110, 111, 119, 110>>
TITLE_G == <<71>>

\* Path::join
join(dir, name) == dir \o SLASH \o name

contains(text, p) ==
    \E i \in 1..(Len(text) - Len(p) + 1) : SubSeq(text, i, i + Len(p) - 1) = p

\* regex::bytes::Regex::is_match for the patterns `text` and `text$`:
\* an unanchored search
regex_is_match(pat, text) ==
    IF pat.anchor_end THEN ends_with(text, pat.text) ELSE contains(text, pat.text)

\* regex::bytes::RegexSet::is_match
regex_set_is_match(set, text) == \E i \in DOMAIN set : regex_is_match(set[i], text)

\* ---- the tree: directories, the directories holding a `.git`, plain files
fs_entries(f) == f.dirs \cup {join(d, DOT_GIT) : d \in f.gits} \cup f.files

\* DirEntry::file_type().is_dir()
is_dir(f, entry) == entry \in f.dirs \cup {join(d, DOT_GIT) : d \in f.gits}

\* is_git_repo: entry.path().join(".git").exists()
is_git_repo(f, entry) == join(entry, DOT_GIT) \in fs_entries(f)

reverse(s) == [i \in DOMAIN s |-> s[Len(s) + 1 - i]]

\* std::fs::read_dir as walkdir consumes it: the entries of a directory in the
\* order the file system lists them
NAME_ORDER == <<DOT_GIT, NAME_A, NAME_B, NAME_F>>
read_dir(f, dir) ==
    LET all == [i \in DOMAIN NAME_ORDER |-> join(dir, NAME_ORDER[i])]
        here == SelectSeq(all, LAMBDA e : e \in fs_entries(f))
    IN IF f.reversed THEN reverse(here) ELSE here

\* ---- walkdir::IntoIter: the start path, then a stack of open directories
WalkDir_new(root) == [start |-> Some(root), stack |-> <<>>]

\* walkdir::IntoIter::next: <<iterator after the call, Option<entry>>>
RECURSIVE IntoIter_next(_, _)
IntoIter_next(f, it) ==
    IF it.start # None
    THEN <<[start |-> None,
            stack |-> IF is_dir(f, unwrap(it.start))
                      THEN <<read_dir(f, unwrap(it.start))>> ELSE <<>>],
           it.start>>
    ELSE IF it.stack = <<>> THEN <<it, None>>
    ELSE LET top == it.stack[Len(it.stack)]
             below == SubSeq(it.stack, 1, Len(it.stack) - 1)
         IN IF top = <<>> THEN IntoIter_next(f, [it EXCEPT !.stack = below])
            ELSE LET entry == Head(top)
                     rest == Append(below, Tail(top))
                 IN <<[it EXCEPT !.stack = IF is_dir(f, entry)
                                           THEN Append(rest, read_dir(f, entry))
                                           ELSE rest],
                      Some(entry)>>

\* walkdir::IntoIter::skip_current_dir
skip_current_dir(it) ==
    IF it.stack = <<>> THEN it
    ELSE [it EXCEPT !.stack = SubSeq(it.stack, 1, Len(it.stack) - 1)]

\* ---- regex::Regex::new / RegexSet::new: of the patterns explored, the ones
\* holding an unclosed `(` do not compile
LPAREN == <<40>>
Regex_new_is_ok(text) == ~contains(text, LPAREN)
RegexSet_new_is_ok(set) == \A i \in DOMAIN set : Regex_new_is_ok(set[i].text)

\* ---------------------------------------------------------------- scan.rs
\* scan_git_repos
scan_git_repos(root, ignore) == [root |-> root, inner |-> WalkDir_new(root), ignore |-> ignore]

\* mutant: an excluded directory is passed over without skip_current_dir
RECURSIVE GitRepoWalker_next_no_prune(_, _, _)
GitRepoWalker_next_no_prune(f, w, seen) ==
    LET step == IntoIter_next(f, w.inner)
        w1 == [w EXCEPT !.inner = step[1]]
    IN IF step[2] = None THEN [walker |-> w1, out |-> None, seen |-> seen]
       ELSE LET entry == unwrap(step[2])
                seen1 == seen \cup {entry}
            IN IF ~is_dir(f, entry) THEN GitRepoWalker_next_no_prune(f, w1, seen1)
               ELSE IF entry = w.root THEN GitRepoWalker_next_no_prune(f, w1, seen1)
               ELSE IF regex_set_is_match(w.ignore, entry)
                    THEN GitRepoWalker_next_no_prune(f, w1, seen1)
               ELSE IF ~is_git_repo(f, entry) THEN GitRepoWalker_next_no_prune(f, w1, seen1)
               ELSE [walker |-> [w1 EXCEPT !.inner = skip_current_dir(w1.inner)],
                     out |-> Some(entry),
                     seen |-> seen1]

\* mutant: a repository is returned without skip_current_dir, so the walk goes
\* on below it
RECURSIVE GitRepoWalker_next_descends(_, _, _)
GitRepoWalker_next_descends(f, w, seen) ==
    LET step == IntoIter_next(f, w.inner)
        w1 == [w EXCEPT !.inner = step[1]]
    IN IF step[2] = None THEN [walker |-> w1, out |-> None, seen |-> seen]
       ELSE LET entry == unwrap(step[2])
                seen1 == seen \cup {entry}
            IN IF ~is_dir(f, entry) THEN GitRepoWalker_next_descends(f, w1, seen1)
               ELSE IF entry = w.root THEN GitRepoWalker_next_descends(f, w1, seen1)
               ELSE IF regex_set_is_match(w.ignore, entry)
                    THEN GitRepoWalker_next_descends(
                             f, [w1 EXCEPT !.inner = skip_current_dir(w1.inner)], seen1)
               ELSE IF ~is_git_repo(f, entry) THEN GitRepoWalker_next_descends(f, w1, seen1)
               ELSE [walker |-> w1, out |-> Some(entry), seen |-> seen1]

\* mutant: the entry of the root itself is not passed over
RECURSIVE GitRepoWalker_next_yields_root(_, _, _)
GitRepoWalker_next_yields_root(f, w, seen) ==
    LET step == IntoIter_next(f, w.inner)
        w1 == [w EXCEPT !.inner = step[1]]
    IN IF step[2] = None THEN [walker |-> w1, out |-> None, seen |-> seen]
       ELSE LET entry == unwrap(step[2])
                seen1 == seen \cup {entry}
            IN IF ~is_dir(f, entry) THEN GitRepoWalker_next_yields_root(f, w1, seen1)
               ELSE IF regex_set_is_match(w.ignore, entry)
                    THEN GitRepoWalker_next_yields_root(
                             f, [w1 EXCEPT !.inner = skip_current_dir(w1.inner)], seen1)
               ELSE IF ~is_git_repo(f, entry)
                    THEN GitRepoWalker_next_yields_root(f, w1, seen1)
               ELSE [walker |-> [w1 EXCEPT !.inner = skip_current_dir(w1.inner)],
                     out |-> Some(entry),
                     seen |-> seen1]

\* GitRepoWalker::next: [walker after the call, out: Option<PathBuf>,
\* seen: the entries inner.next() returned during the call]
RECURSIVE GitRepoWalker_next(_, _, _)
GitRepoWalker_next(f, w, seen) ==
    LET step == IntoIter_next(f, w.inner)
        w1 == [w EXCEPT !.inner = step[1]]
    IN IF step[2] = None THEN [walker |-> w1, out |-> None, seen |-> seen]
       ELSE LET entry == unwrap(step[2])
                seen1 == seen \cup {entry}
            IN IF ~is_dir(f, entry) THEN GitRepoWalker_next(f, w1, seen1)
               ELSE IF entry = w.root THEN GitRepoWalker_next(f, w1, seen1)
               ELSE IF regex_set_is_match(w.ignore, entry)
                    THEN GitRepoWalker_next(
                             f, [w1 EXCEPT !.inner = skip_current_dir(w1.inner)], seen1)
               ELSE IF ~is_git_repo(f, entry) THEN GitRepoWalker_next(f, w1, seen1)
               ELSE [walker |-> [w1 EXCEPT !.inner = skip_current_dir(w1.inner)],
                     out |-> Some(entry),
                     seen |-> seen1]

\* ------------------------------------------ cmd/project/project_dir.rs
\* Regex::captures(..).get(1) for the pattern `prefix(.*)`: the text behind the
\* leftmost occurrence of the prefix
captures_1(extract, text) ==
    IF ~contains(text, extract.prefix) THEN None
    ELSE LET i == CHOOSE k \in 1..(Len(text) - Len(extract.prefix) + 1) :
                      /\ SubSeq(text, k, k + Len(extract.prefix) - 1) = extract.prefix
                      /\ \A m \in 1..(k - 1) :
                            SubSeq(text, m, m + Len(extract.prefix) - 1) # extract.prefix
         IN Some(SubSeq(text, i + Len(extract.prefix), Len(text)))

\* ProjectExtractor::extract
extract(config, dir, parent) ==
    IF captures_1(config.extract, dir) = None THEN None
    ELSE Some([path |-> dir,
               typename |-> IF parent # None
                            THEN unwrap(parent).typename \o SLASH \o unwrap(parent).title
                            ELSE config.title,
               title |-> unwrap(captures_1(config.extract, dir))])

\* --------------------------------------------------------- cmd/project.rs
\* scan_groups: default_config
default_config ==
    [root |-> EMPTY_STR, exclude |-> <<>>, title |-> UNKNOWN,
     extract |-> [prefix |-> EMPTY_STR], recurse |-> FALSE]

\* mutant: the fallback extractor keeps the title of the owning group
make_project_keeps_group_title(group_config, repo_path, parent) ==
    IF extract(group_config, repo_path, parent) # None
    THEN unwrap(extract(group_config, repo_path, parent))
    ELSE unwrap(extract([default_config EXCEPT !.title = group_config.title],
                        repo_path, parent))

\* scan_groups: the Project built for a discovered repository
make_project(group_config, repo_path, parent) ==
    IF extract(group_config, repo_path, parent) # None
    THEN unwrap(extract(group_config, repo_path, parent))
    ELSE unwrap(extract(default_config, repo_path, parent))

\* ------------------------------------------------- repositories explored
USER_NAME == "me"
Units == {"build_targets.rs", "gitjump.rs"}

Item(ref, tip, up) == [ok |-> TRUE, ref |-> ref, tip |-> tip, upstream |-> up]
\* an Err yielded by the branch iterator
IterErr == [ok |-> FALSE, ref |-> EMPTY_STR, tip |-> None, upstream |-> None]

ReadableRefs == {RefHeadsA, RefHeadsB, RefOriginA, ORIGIN_HEAD}
PlainItems == {Item(r, t, None) : r \in ReadableRefs, t \in Option(Commits)}
TrackingItems ==
    PlainItems \cup {Item(RefHeadsA, t, Some(RefOriginA)) : t \in Option(Commits)}
FaultyItems == {IterErr, Item(RefBadUtf8, Some(1), None)}

\* the branches of a repository: reference names are unique
BranchLists(items) ==
    {s \in UNION {[1..n -> items] : n \in 0..MaxBranches} :
        \A i, j \in DOMAIN s : i # j => s[i].ref # s[j].ref}

\* commit graphs: every commit has at most one parent, created before it
Parents ==
    {p \in [Commits -> Option(Commits)] :
        \A c \in Commits : p[c] = None \/ unwrap(p[c]) < c}
Roots == [c \in Commits |-> None]
Times == [Commits -> 0..MaxTime]
DefaultTime == [c \in Commits |-> c % (MaxTime + 1)]
AuthorTables == [Commits -> Authors]
DefaultAuthor == [c \in Commits |-> USER_NAME]

Repo(bs, par, tm, au) ==
    [branches |-> bs, head |-> Some(RefHeadsA), parent |-> par, time |-> tm,
     author |-> au, user_name |-> USER_NAME,
     head_detached |-> None, work_tree |-> None, dirty |-> FALSE]

\* jump: TargetFilter { branch_author: name.and_then(|n| args.use_author.then_some(n)) }
TargetFilter(r, a) ==
    [branch_author |-> IF a.use_author THEN Some(r.user_name) ELSE None]

\* The explored repositories vary one aspect at a time:
\*   history    any commit graph and upstream, plain invocation
\*   invocation any flags, unit, authors and unreadable branches, flat history
\*   times      any commit times
InitHistory ==
    /\ \E bs \in BranchLists(TrackingItems), par \in Parents :
          repo = Repo(bs, par, DefaultTime, DefaultAuthor)
    /\ args = [use_author |-> FALSE, show_all_branches |-> FALSE]
    /\ unit = "build_targets.rs"

InitInvocation ==
    /\ \E bs \in BranchLists(PlainItems \cup FaultyItems), ua \in BOOLEAN :
          \E au \in (IF ua THEN AuthorTables ELSE {DefaultAuthor}) :
             \E sa \in (IF ua THEN {FALSE} ELSE BOOLEAN) :
                /\ repo = Repo(bs, Roots, DefaultTime, au)
                /\ args = [use_author |-> ua, show_all_branches |-> sa]
    /\ unit \in Units

InitTimes ==
    /\ \E bs \in BranchLists(PlainItems), tm \in Times :
          repo = Repo(bs, Roots, tm, DefaultAuthor)
    /\ args = [use_author |-> FALSE, show_all_branches |-> FALSE]
    /\ unit = "build_targets.rs"

ScanIdle ==
    /\ fs = [dirs |-> {ROOT_DIR}, gits |-> {}, files |-> {}, reversed |-> FALSE]
    /\ queue = <<>>
    /\ scan = None
    /\ scan_pc = "idle"
    /\ sent = <<>>
    /\ visited = {}

DisplayIdle ==
    /\ target = None
    /\ shown = None
    /\ now = 0
    /\ time_shown = None

MAIN == "main"
WORKER == "worker"

\* no command is running
SearchIdle ==
    /\ cmd = "none"
    /\ opts = [tmux_rename |-> None]
    /\ directories = <<>>
    /\ send_idx = 1
    /\ threads = {}
    /\ worker_pc = "unspawned"
    /\ senders = <<>>
    /\ log = <<>>
    /\ recv_alive = TRUE
    /\ received = <<>>
    /\ started_at = None
    /\ main_pc = "idle"
    /\ resp = None
    /\ exit = "running"
    /\ stdout = <<>>
    /\ renamed = <<>>
    /\ checked_out = <<>>
    /\ EnvIdle

JumpIdle ==
    /\ repo = Repo(<<>>, Roots, DefaultTime, DefaultAuthor)
    /\ args = [use_author |-> FALSE, show_all_branches |-> FALSE]
    /\ unit = "build_targets.rs"
    /\ pc = "idle"
    /\ idx = 1
    /\ target_map = <<>>
    /\ results = <<>>

InitJump ==
    /\ InitHistory \/ InitInvocation \/ InitTimes
    /\ pc = "build_branches"
    /\ idx = 1
    /\ target_map = <<>>
    /\ results = <<>>
    /\ DisplayIdle
    /\ ScanIdle
    /\ SearchIdle

\* ----------------------------------------------------------- git-jump steps
current_item == repo.branches[idx]
current_outcome == branch_outcome(repo, TargetFilter(repo, args), current_item)

\* build_branches: `let (branch, branch_type) = branch_result?;` fails
build_branches_abort ==
    /\ pc = "build_branches"
    /\ idx <= Len(repo.branches)
    /\ current_outcome = "abort"
    /\ pc' = "failed"
    /\ UNCHANGED <<repo, args, unit, idx, target_map, results>>
    /\ UNCHANGED display_vars
    /\ UNCHANGED scan_vars
    /\ UNCHANGED search_vars
    /\ UNCHANGED env_vars

\* build_branches: an iteration that ends in `continue`
build_branches_skip ==
    /\ pc = "build_branches"
    /\ idx <= Len(repo.branches)
    /\ current_outcome = "skip"
    /\ target_map' = process_branch(repo, TargetFilter(repo, args), target_map, current_item)
    /\ idx' = idx + 1
    /\ UNCHANGED <<repo, args, unit, pc, results>>
    /\ UNCHANGED display_vars
    /\ UNCHANGED scan_vars
    /\ UNCHANGED search_vars
    /\ UNCHANGED env_vars

\* build_branches: an iteration that pushes the branch on its Target
build_branches_insert ==
    /\ pc = "build_branches"
    /\ idx <= Len(repo.branches)
    /\ current_outcome = "insert"
    /\ target_map' = process_branch(repo, TargetFilter(repo, args), target_map, current_item)
    /\ idx' = idx + 1
    /\ UNCHANGED <<repo, args, unit, pc, results>>
    /\ UNCHANGED display_vars
    /\ UNCHANGED scan_vars
    /\ UNCHANGED search_vars
    /\ UNCHANGED env_vars

\* build_targets.rs:40-54, after build_branches returned Ok
build_targets ==
    /\ pc = "build_branches"
    /\ idx > Len(repo.branches)
    /\ unit = "build_targets.rs"
    /\ \E order \in into_values(target_map) :
          results' = sort_targets([i \in DOMAIN order |->
                                      annotate_target(repo, target_map[order[i]])])
    /\ pc' = "done"
    /\ UNCHANGED <<repo, args, unit, idx, target_map>>
    /\ UNCHANGED display_vars
    /\ UNCHANGED scan_vars
    /\ UNCHANGED search_vars
    /\ UNCHANGED env_vars

\* gitjump.rs:227-244, after build_branches returned Ok
build_targets_args ==
    /\ pc = "build_branches"
    /\ idx > Len(repo.branches)
    /\ unit = "gitjump.rs"
    /\ \E order \in into_values(target_map) :
          results' = sort_targets([i \in DOMAIN order |->
                                      annotate_target_args(args, repo, target_map[order[i]])])
    /\ pc' = "done"
    /\ UNCHANGED <<repo, args, unit, idx, target_map>>
    /\ UNCHANGED display_vars
    /\ UNCHANGED scan_vars
    /\ UNCHANGED search_vars
    /\ UNCHANGED env_vars

NextJump ==
    \/ build_branches_abort
    \/ build_branches_skip
    \/ build_branches_insert
    \/ build_targets
    \/ build_targets_args

\* ------------------------------------------------------ rendering a Target
\* The Targets rendered: up to MaxListed branches of one commit, sorted as
\* build_targets leaves them, at most one of them the checked-out branch.
DisplayRefs == {RefHeadsA, RefHeadsB, RefOriginA, RefOriginBA, RefUpA}

GitBranch(ref, head) ==
    [name |-> unwrap(branch_name(Item(ref, Some(1), None))),
     upstream |-> None,
     ref_name |-> ref,
     branch_type |-> branch_type_of(Item(ref, Some(1), None)),
     head |-> head,
     status |-> "Unique"]

RECURSIVE set_to_seq(_)
set_to_seq(S) ==
    IF S = {} THEN <<>>
    ELSE LET x == CHOOSE y \in S : TRUE IN <<x>> \o set_to_seq(S \ {x})

DisplayTargets ==
    {[commit |-> [id |-> 1, time |-> 0, author |-> USER_NAME],
      branches |-> sort_branches(set_to_seq({GitBranch(r, Some(r) = h) : r \in refs})),
      is_merged |-> flags[1],
      is_primary |-> flags[2]] :
        refs \in {R \in SUBSET DisplayRefs : R # {} /\ Cardinality(R) <= MaxListed},
        h \in Option({RefHeadsA, RefHeadsB}),
        flags \in {<<FALSE, FALSE>>, <<TRUE, FALSE>>, <<TRUE, TRUE>>}}

InitDisplay ==
    /\ JumpIdle
    /\ ScanIdle
    /\ SearchIdle
    /\ target \in {Some(t) : t \in DisplayTargets}
    /\ shown = None
    /\ now = 0
    /\ time_shown = None

\* the ages at which DisplayTime::fmt changes its format
TimeThresholds == {0, 2 * 60, 2 * 3600, RELATIVE_TIME_LOOKBACK_HOURS * 3600,
                   RELATIVE_TIME_LOOKBACK_DAYS * 86400}
\* ages around every threshold, far behind the last one, and commits dated
\* after the clock
Ages ==
    {th + k : th \in TimeThresholds, k \in (-TimeWindow)..TimeWindow}
        \cup {-518400, -7200, -120, 179, 10799, 604800}
CommitTimes == {0, 1, 86399}
TimedTargets ==
    {[commit |-> [id |-> 1, time |-> t, author |-> USER_NAME],
      branches |-> <<GitBranch(RefHeadsA, TRUE)>>,
      is_merged |-> FALSE,
      is_primary |-> FALSE] : t \in CommitTimes}

\* a commit of any age rendered: the clock is `age` seconds past (or before)
\* the commit time
InitTime ==
    /\ JumpIdle
    /\ ScanIdle
    /\ SearchIdle
    /\ target \in {Some(t) : t \in TimedTargets}
    /\ shown = None
    /\ now \in {unwrap(target).commit.time + age : age \in Ages}
    /\ time_shown = None

\* SkimGitTarget::new: format!("{}", DisplayLine { target, .. })
display_line ==
    /\ target # None
    /\ shown = None
    /\ time_shown' = Some(DisplayTime_fmt(unwrap(target).commit.time, now))
    /\ shown' = Some(fmt(unwrap(target)))
    /\ UNCHANGED <<target, now>>
    /\ UNCHANGED jump_vars
    /\ UNCHANGED scan_vars
    /\ UNCHANGED search_vars
    /\ UNCHANGED env_vars

NextDisplay == display_line

\* ------------------------------------------------------- trees explored
\* Directories named a and b below the root, chains of a below them, down to
\* MaxDepth levels; any of them may hold a `.git`; the root may hold a file.
RECURSIVE dirs_at(_)
dirs_at(depth) ==
    IF depth = 0 THEN {ROOT_DIR}
    ELSE IF depth = 1 THEN {join(ROOT_DIR, NAME_A), join(ROOT_DIR, NAME_B)}
    ELSE {join(d, NAME_A) : d \in dirs_at(depth - 1)}

DirUniverse == UNION {dirs_at(d) : d \in 0..MaxDepth}

parent_dir(d) == CHOOSE q \in DirUniverse : d \in {join(q, NAME_A), join(q, NAME_B)}

Trees ==
    {[dirs |-> ds, gits |-> gs, files |-> fl, reversed |-> rv] :
        ds \in {D \in SUBSET DirUniverse :
                    ROOT_DIR \in D /\ \A d \in D \ {ROOT_DIR} : parent_dir(d) \in D},
        gs \in SUBSET DirUniverse,
        fl \in {{}, {join(ROOT_DIR, NAME_F)}},
        rv \in BOOLEAN}

Pattern(text, anchor_end) == [text |-> text, anchor_end |-> anchor_end]
\* the exclusion lists explored: none, `/b`, `b$`, `r$`, and `/b` with `a$`
Excludes ==
    {<<>>,
     <<Pattern(SLASH \o NAME_B, FALSE)>>,
     <<Pattern(NAME_B, TRUE)>>,
     <<Pattern(<<114>>, TRUE)>>,
     <<Pattern(SLASH \o NAME_B, FALSE), Pattern(NAME_A, TRUE)>>}

\* the extraction patterns explored: `/r/(.*)`, `/x/(.*)` and `/r/a(.*)`
Extracts ==
    {[prefix |-> ROOT_DIR \o SLASH], [prefix |-> <<47, 120, 47>>],
     [prefix |-> join(ROOT_DIR, NAME_A)]}

Groups ==
    {[root |-> ROOT_DIR, exclude |-> ex, title |-> TITLE_G, extract |-> xt, recurse |-> rc] :
        ex \in Excludes, xt \in Extracts, rc \in BOOLEAN}

\* scan_groups on its own: it runs on the spawned thread, the receiver is held
ScanAlone ==
    /\ cmd = "scan_groups"
    /\ opts = [tmux_rename |-> None]
    /\ directories = <<>>
    /\ send_idx = 1
    /\ threads = {WORKER}
    /\ worker_pc = "scan"
    /\ senders = <<>>
    /\ log = <<>>
    /\ recv_alive = TRUE
    /\ received = <<>>
    /\ started_at = None
    /\ main_pc = "idle"
    /\ resp = None
    /\ exit = "running"
    /\ stdout = <<>>
    /\ renamed = <<>>
    /\ checked_out = <<>>
    /\ EnvIdle

\* search: the queue holds (group, None) for every group; scan_groups starts
InitScan ==
    /\ JumpIdle
    /\ DisplayIdle
    /\ ScanAlone
    /\ fs \in {t \in Trees : t.gits \subseteq t.dirs}
    /\ \E g \in Groups : queue = <<[group |-> g, parent |-> None]>>
    /\ scan = None
    /\ scan_pc = "queue"
    /\ sent = <<>>
    /\ visited = {}

\* scan_groups: `while let Some((group_config, parent)) = queue.pop_front()`
\* down to the construction of the walker
scan_groups_pop ==
    /\ scan_pc = "queue"
    /\ queue # <<>>
    /\ Regex_new_is_ok(Head(queue).group.extract.prefix)
    /\ RegexSet_new_is_ok(Head(queue).group.exclude)
    /\ scan' = Some([group_config |-> Head(queue).group,
                     parent |-> Head(queue).parent,
                     walker |-> scan_git_repos(Head(queue).group.root,
                                               Head(queue).group.exclude)])
    /\ queue' = Tail(queue)
    /\ scan_pc' = "scanning"
    /\ UNCHANGED <<fs, sent, visited>>
    /\ UNCHANGED jump_vars
    /\ UNCHANGED display_vars
    /\ UNCHANGED search_vars
    /\ UNCHANGED env_vars

\* scan_groups: `.expect("bad config")` / `.expect("bad exclude config")` on a
\* pattern that does not compile: the thread running scan_groups panics
scan_groups_panic ==
    /\ scan_pc = "queue"
    /\ queue # <<>>
    /\ \/ ~Regex_new_is_ok(Head(queue).group.extract.prefix)
       \/ ~RegexSet_new_is_ok(Head(queue).group.exclude)
    /\ queue' = Tail(queue)
    /\ scan_pc' = "panicked"
    /\ worker_pc' = "panicked"
    /\ UNCHANGED <<fs, scan, sent, visited>>
    /\ UNCHANGED jump_vars
    /\ UNCHANGED display_vars
    /\ UNCHANGED <<cmd, opts, directories, send_idx, threads, senders, log,
                   recv_alive, received, started_at, main_pc, resp, exit, stdout,
                   renamed, checked_out>>
    /\ UNCHANGED env_vars

walker_call == GitRepoWalker_next(fs, unwrap(scan).walker, {})
note_visits(sc, call) ==
    {[root |-> sc.group_config.root, exclude |-> sc.group_config.exclude,
      recurse |-> sc.group_config.recurse,
      path |-> e, yielded |-> (call.out = Some(e))] : e \in call.seen}

\* mutant: the entry queued for the recursion keeps the root of its group
scan_groups_found_keeps_root ==
    /\ scan_pc = "scanning"
    /\ walker_call.out # None
    /\ recv_alive
    /\ LET sc == unwrap(scan)
           proj == make_project(sc.group_config, unwrap(walker_call.out), sc.parent)
       IN /\ sent' = Append(sent, proj)
          /\ queue' = IF sc.group_config.recurse
                      THEN Append(queue, [group |-> sc.group_config, parent |-> Some(proj)])
                      ELSE queue
          /\ scan' = Some([sc EXCEPT !.walker = walker_call.walker])
          /\ visited' = visited \cup note_visits(sc, walker_call)
    /\ senders' = Append(senders, [by |-> WORKER, ok |-> TRUE])
    /\ UNCHANGED <<fs, scan_pc>>
    /\ UNCHANGED jump_vars
    /\ UNCHANGED display_vars
    /\ UNCHANGED <<cmd, opts, directories, send_idx, threads, worker_pc, log,
                   recv_alive, received, started_at, main_pc, resp, exit, stdout,
                   renamed, checked_out>>
    /\ UNCHANGED env_vars

\* scan_groups: one iteration of `for repo_path in scan_git_repos(..)`
scan_groups_found ==
    /\ scan_pc = "scanning"
    /\ walker_call.out # None
    /\ recv_alive
    /\ LET sc == unwrap(scan)
           proj == make_project(sc.group_config, unwrap(walker_call.out), sc.parent)
       IN /\ sent' = Append(sent, proj)
          /\ queue' = IF sc.group_config.recurse
                      THEN Append(queue, [group |-> [sc.group_config EXCEPT !.root = proj.path],
                                          parent |-> Some(proj)])
                      ELSE queue
          /\ scan' = Some([sc EXCEPT !.walker = walker_call.walker])
          /\ visited' = visited \cup note_visits(sc, walker_call)
    /\ senders' = Append(senders, [by |-> WORKER, ok |-> TRUE])
    /\ UNCHANGED <<fs, scan_pc>>
    /\ UNCHANGED jump_vars
    /\ UNCHANGED display_vars
    /\ UNCHANGED <<cmd, opts, directories, send_idx, threads, worker_pc, log,
                   recv_alive, received, started_at, main_pc, resp, exit, stdout,
                   renamed, checked_out>>
    /\ UNCHANGED env_vars

\* scan_groups: send.send(..) fails, the receiver is gone: anyhow::bail!
scan_groups_send_failed ==
    /\ scan_pc = "scanning"
    /\ walker_call.out # None
    /\ ~recv_alive
    /\ scan' = Some([unwrap(scan) EXCEPT !.walker = walker_call.walker])
    /\ visited' = visited \cup note_visits(unwrap(scan), walker_call)
    /\ scan_pc' = "failed"
    /\ senders' = Append(senders, [by |-> WORKER, ok |-> FALSE])
    /\ UNCHANGED <<fs, queue, sent>>
    /\ UNCHANGED jump_vars
    /\ UNCHANGED display_vars
    /\ UNCHANGED <<cmd, opts, directories, send_idx, threads, worker_pc, log,
                   recv_alive, received, started_at, main_pc, resp, exit, stdout,
                   renamed, checked_out>>
    /\ UNCHANGED env_vars

\* scan_groups: the walker is exhausted, back to the queue
scan_groups_exhausted ==
    /\ scan_pc = "scanning"
    /\ walker_call.out = None
    /\ scan' = None
    /\ visited' = visited \cup note_visits(unwrap(scan), walker_call)
    /\ scan_pc' = "queue"
    /\ UNCHANGED <<fs, queue, sent>>
    /\ UNCHANGED jump_vars
    /\ UNCHANGED display_vars
    /\ UNCHANGED search_vars
    /\ UNCHANGED env_vars

\* scan_groups: the queue is empty, Ok(())
scan_groups_return ==
    /\ scan_pc = "queue"
    /\ queue = <<>>
    /\ scan_pc' = "done"
    /\ UNCHANGED <<fs, queue, scan, sent, visited>>
    /\ UNCHANGED jump_vars
    /\ UNCHANGED display_vars
    /\ UNCHANGED search_vars
    /\ UNCHANGED env_vars

NextScan ==
    \/ scan_groups_pop
    \/ scan_groups_found
    \/ scan_groups_exhausted
    \/ scan_groups_return

\* =============================================== commands explored
\* Project::from_manual_directory (its body is not part of the sources at
\* hand): the Project of a ManualDirectory, titled by the label when there is one
MANUAL_TYPE == <<109>>
from_manual_directory(path, label) ==
    [path |-> path,
     typename |-> MANUAL_TYPE,
     title |-> IF label # None THEN unwrap(label) ELSE path]

\* SkimGitTarget::new
SkimGitTarget_new(t) == [inner |-> t, display_str |-> fmt(t)]

\* dirs: one ProjectGroup per root given on the command line
dirs(roots, git_recurse) ==
    [i \in DOMAIN roots |->
        [root |-> roots[i], exclude |-> <<>>, title |-> roots[i],
         extract |-> [prefix |-> roots[i] \o SLASH], recurse |-> git_recurse]]

\* search: queue.push_back((root, None)) for every group
initial_queue(groups) == [i \in DOMAIN groups |-> [group |-> groups[i], parent |-> None]]

\* ---- what the commands are run on
BAD_ROOT == <<47, 40>>
DIR_M == <<47, 109>>
DIR_N == <<47, 110>>
LABEL_S == <<83>>

SearchTrees ==
    {[dirs |-> {ROOT_DIR}, gits |-> {}, files |-> {}, reversed |-> FALSE],
     [dirs |-> {ROOT_DIR, join(ROOT_DIR, NAME_A), join(ROOT_DIR, NAME_B)},
      gits |-> {join(ROOT_DIR, NAME_A), join(ROOT_DIR, NAME_B)},
      files |-> {}, reversed |-> FALSE],
     [dirs |-> {ROOT_DIR, join(ROOT_DIR, NAME_A), join(join(ROOT_DIR, NAME_A), NAME_A)},
      gits |-> {join(ROOT_DIR, NAME_A), join(join(ROOT_DIR, NAME_A), NAME_A)},
      files |-> {}, reversed |-> FALSE]}

GoodGroup(rc) ==
    [root |-> ROOT_DIR, exclude |-> <<>>, title |-> TITLE_G,
     extract |-> [prefix |-> ROOT_DIR \o SLASH], recurse |-> rc]
\* a group whose extraction pattern is `/r/((.*)`, one whose exclusion is `(`
BadExtractGroup == [GoodGroup(FALSE) EXCEPT !.extract = [prefix |-> ROOT_DIR \o SLASH \o LPAREN]]
BadExcludeGroup == [GoodGroup(FALSE) EXCEPT !.exclude = <<Pattern(LPAREN, FALSE)>>]

PresetProjects ==
    {<<>>, <<BadExtractGroup>>, <<BadExcludeGroup>>}
    \cup {<<GoodGroup(rc)>> : rc \in BOOLEAN}
    \cup {<<GoodGroup(rc), b>> : rc \in BOOLEAN, b \in {BadExtractGroup, BadExcludeGroup}}

\* `directories:` entries as written: /m with a label, /n without one
PresetDirectories ==
    {<<>>,
     <<[path |-> DIR_M, label |-> LABEL_S]>>,
     <<[path |-> DIR_M, label |-> LABEL_S], [path |-> DIR_N]>>}
PresetDocuments ==
    {[projects |-> ps, directories |-> ds] : ps \in PresetProjects, ds \in PresetDirectories}

DirsRoots == {<<ROOT_DIR>>, <<BAD_ROOT>>}
\* --tmux-rename: not given, or one of the values of argparse::TmuxRename
TmuxRenames == {None, Some("Force"), Some("DefaultOnly")}

\* the Targets build_targets handed to jump, newest first
JumpTarget(id, time, refs) ==
    [commit |-> [id |-> id, time |-> time, author |-> USER_NAME],
     branches |-> sort_branches(set_to_seq({GitBranch(r, FALSE) : r \in refs})),
     is_merged |-> FALSE,
     is_primary |-> FALSE]
JumpResults ==
    {<<>>,
     <<JumpTarget(2, 1, {RefHeadsA})>>,
     <<JumpTarget(2, 1, {RefHeadsA, RefOriginA}), JumpTarget(1, 0, {RefHeadsB})>>}

\* the repository a list of Targets was built from: every listed branch is a
\* reference at the Target's commit
RECURSIVE target_items(_)
target_items(ts) ==
    IF ts = <<>> THEN <<>>
    ELSE [k \in DOMAIN ts[1].branches |->
             Item(ts[1].branches[k].ref_name, Some(ts[1].commit.id), None)]
         \o target_items(Tail(ts))
JumpRepo(ts) == Repo(target_items(ts), Roots, DefaultTime, DefaultAuthor)

\* ---- the state a command starts in
SearchStart ==
    /\ send_idx = 1
    /\ threads = {}
    /\ worker_pc = "unspawned"
    /\ senders = <<>>
    /\ log = <<>>
    /\ recv_alive = TRUE
    /\ received = <<>>
    /\ started_at = None
    /\ resp = None
    /\ exit = "running"
    /\ stdout = <<>>
    /\ renamed = <<>>
    /\ checked_out = <<>>
    /\ scan = None
    /\ scan_pc = "idle"
    /\ sent = <<>>
    /\ visited = {}
    /\ DisplayIdle

\* preset: search(config.projects, config.directories)
InitPreset ==
    /\ cmd = "preset"
    /\ fs \in SearchTrees
    /\ \E doc \in PresetDocuments :
          /\ document = Some(doc)
          /\ loaded = Some(read_config(document))
          /\ queue = initial_queue(read_config(document).projects)
          /\ directories = read_config(document).directories
    /\ tmux = DefaultTmux
    /\ opts \in {[tmux_rename |-> r] : r \in TmuxRenames}
    /\ main_pc = "search"
    /\ JumpIdle

\* dirs: search(groups, Vec::new())
InitDirs ==
    /\ cmd = "dirs"
    /\ fs \in SearchTrees
    /\ \E roots \in DirsRoots, rc \in BOOLEAN : queue = initial_queue(dirs(roots, rc))
    /\ directories = <<>>
    /\ document = None
    /\ loaded = None
    /\ tmux = DefaultTmux
    /\ opts \in {[tmux_rename |-> r] : r \in TmuxRenames}
    /\ main_pc = "search"
    /\ JumpIdle

\* jump, after build_targets has returned Ok(targets)
InitJumpCmd ==
    /\ cmd = "jump"
    /\ fs = [dirs |-> {ROOT_DIR}, gits |-> {}, files |-> {}, reversed |-> FALSE]
    /\ queue = <<>>
    /\ directories = <<>>
    /\ opts = [tmux_rename |-> None]
    /\ main_pc = "send"
    /\ results \in JumpResults
    /\ repo = JumpRepo(results)
    /\ EnvIdle
    /\ args = [use_author |-> FALSE, show_all_branches |-> FALSE]
    /\ unit = "build_targets.rs"
    /\ pc = "done"
    /\ idx = 1
    /\ target_map = <<>>

InitSearch == SearchStart /\ (InitPreset \/ InitDirs \/ InitJumpCmd)

\* ---- configuration files: every choice of keys left out
GroupKeys == {"root", "title", "extract"}
GroupEntry(optional, exclude, recurse) ==
    [key \in GroupKeys \cup optional |->
        CASE key = "root" -> ROOT_DIR
          [] key = "title" -> TITLE_G
          [] key = "extract" -> [prefix |-> ROOT_DIR \o SLASH]
          [] key = "exclude" -> exclude
          [] key = "recurse" -> recurse]
GroupEntries ==
    {GroupEntry(optional, exclude, recurse) :
        optional \in SUBSET {"exclude", "recurse"},
        exclude \in {<<>>, <<Pattern(NAME_A, FALSE)>>},
        recurse \in BOOLEAN}
\* a group without its `extract`
IncompleteGroup == [root |-> ROOT_DIR, title |-> TITLE_G]
FullGroup == GroupEntry({"exclude", "recurse"}, <<Pattern(NAME_A, FALSE)>>, TRUE)
ProjectLists ==
    {<<>>, <<IncompleteGroup>>}
        \cup {<<g>> : g \in GroupEntries}
        \cup {<<g, FullGroup>> : g \in GroupEntries}
DirectoryLists ==
    PresetDirectories \cup {<<[label |-> LABEL_S]>>}
ConfigDocuments ==
    {[key \in keys |-> IF key = "projects" THEN ps ELSE ds] :
        keys \in SUBSET {"projects", "directories"},
        ps \in ProjectLists,
        ds \in DirectoryLists}

\* preset, before load_config(args.config.as_deref())
InitConfig ==
    /\ SearchStart
    /\ cmd = "preset"
    /\ fs = [dirs |-> {ROOT_DIR}, gits |-> {}, files |-> {}, reversed |-> FALSE]
    /\ queue = <<>>
    /\ directories = <<>>
    /\ document \in Option(ConfigDocuments)
    /\ loaded = None
    /\ tmux = DefaultTmux
    /\ opts = [tmux_rename |-> None]
    /\ main_pc = "load_config"
    /\ JumpIdle

\* preset: `let config = load_config(..)?;`, then search(config.projects,
\* config.directories) fills its queue
load_config ==
    /\ cmd = "preset"
    /\ main_pc = "load_config"
    /\ loaded' = Some(read_config(document))
    /\ IF read_config(document).ok
       THEN /\ queue' = initial_queue(read_config(document).projects)
            /\ directories' = read_config(document).directories
            /\ main_pc' = "search"
            /\ exit' = exit
       ELSE /\ main_pc' = "returned"
            /\ exit' = "Err"
            /\ UNCHANGED <<queue, directories>>
    /\ UNCHANGED <<cmd, opts, send_idx, threads, worker_pc, senders, log, recv_alive,
                   received, started_at, resp, stdout, renamed, checked_out>>
    /\ UNCHANGED <<fs, scan, scan_pc, sent, visited>>
    /\ UNCHANGED <<jump_vars, display_vars>>
    /\ UNCHANGED <<document, tmux>>

NextConfig == load_config

\* ------------------------------------------------ cmd/project.rs: search
\* mutant: the closure is entered without a thread being spawned for it
search_spawn_no_thread ==
    /\ cmd \in {"preset", "dirs"}
    /\ main_pc = "search"
    /\ worker_pc' = "manual"
    /\ main_pc' = "spawned"
    /\ UNCHANGED <<cmd, opts, directories, send_idx, threads, senders, log, recv_alive,
                   received, started_at, resp, exit, stdout, renamed, checked_out>>
    /\ UNCHANGED <<jump_vars, display_vars, scan_vars>>
    /\ UNCHANGED env_vars

\* search: std::thread::spawn(move || { .. })
search_spawn ==
    /\ cmd \in {"preset", "dirs"}
    /\ main_pc = "search"
    /\ threads' = threads \cup {WORKER}
    /\ worker_pc' = "manual"
    /\ main_pc' = "spawned"
    /\ UNCHANGED <<cmd, opts, directories, send_idx, senders, log, recv_alive, received,
                   started_at, resp, exit, stdout, renamed, checked_out>>
    /\ UNCHANGED <<jump_vars, display_vars, scan_vars>>
    /\ UNCHANGED env_vars

\* search: select_and_return_first(recv) is entered, the front-end starts
search_select ==
    /\ main_pc = "spawned"
    /\ main_pc' = "select"
    /\ started_at' = Some(Len(sent))
    /\ UNCHANGED <<cmd, opts, directories, send_idx, threads, worker_pc, senders, log,
                   recv_alive, received, resp, exit, stdout, renamed, checked_out>>
    /\ UNCHANGED <<jump_vars, display_vars, scan_vars>>
    /\ UNCHANGED env_vars

\* mutant: the directories are walked from the last one to the first
send_manual_directories_send_reversed ==
    /\ worker_pc = "manual"
    /\ send_idx <= Len(directories)
    /\ recv_alive
    /\ LET d == directories[Len(directories) + 1 - send_idx]
       IN sent' = Append(sent, from_manual_directory(d.path, d.label))
    /\ senders' = Append(senders, [by |-> WORKER, ok |-> TRUE])
    /\ send_idx' = send_idx + 1
    /\ UNCHANGED <<cmd, opts, directories, threads, worker_pc, log, recv_alive, received,
                   started_at, main_pc, resp, exit, stdout, renamed, checked_out>>
    /\ UNCHANGED <<fs, queue, scan, scan_pc, visited>>
    /\ UNCHANGED <<jump_vars, display_vars>>
    /\ UNCHANGED env_vars

\* send_manual_directories: one iteration whose send succeeds
send_manual_directories_send ==
    /\ worker_pc = "manual"
    /\ send_idx <= Len(directories)
    /\ recv_alive
    /\ sent' = Append(sent, from_manual_directory(directories[send_idx].path,
                                                  directories[send_idx].label))
    /\ senders' = Append(senders, [by |-> WORKER, ok |-> TRUE])
    /\ send_idx' = send_idx + 1
    /\ UNCHANGED <<cmd, opts, directories, threads, worker_pc, log, recv_alive, received,
                   started_at, main_pc, resp, exit, stdout, renamed, checked_out>>
    /\ UNCHANGED <<fs, queue, scan, scan_pc, visited>>
    /\ UNCHANGED <<jump_vars, display_vars>>
    /\ UNCHANGED env_vars

\* send_manual_directories: the send fails, anyhow::bail!; the closure logs the
\* error and goes on to scan_groups
send_manual_directories_bail ==
    /\ worker_pc = "manual"
    /\ send_idx <= Len(directories)
    /\ ~recv_alive
    /\ senders' = Append(senders, [by |-> WORKER, ok |-> FALSE])
    /\ log' = Append(log, "failed to send manual directories")
    /\ worker_pc' = "scan"
    /\ scan_pc' = "queue"
    /\ UNCHANGED <<cmd, opts, directories, send_idx, threads, recv_alive, received,
                   started_at, main_pc, resp, exit, stdout, renamed, checked_out>>
    /\ UNCHANGED <<fs, queue, scan, sent, visited>>
    /\ UNCHANGED <<jump_vars, display_vars>>
    /\ UNCHANGED env_vars

\* send_manual_directories: Ok(()); the closure goes on to scan_groups
send_manual_directories_ok ==
    /\ worker_pc = "manual"
    /\ send_idx > Len(directories)
    /\ worker_pc' = "scan"
    /\ scan_pc' = "queue"
    /\ UNCHANGED <<cmd, opts, directories, send_idx, threads, senders, log, recv_alive,
                   received, started_at, main_pc, resp, exit, stdout, renamed, checked_out>>
    /\ UNCHANGED <<fs, queue, scan, sent, visited>>
    /\ UNCHANGED <<jump_vars, display_vars>>
    /\ UNCHANGED env_vars

\* the spawned closure: scan_groups has returned, an Err is logged, the thread ends
worker_return ==
    /\ worker_pc = "scan"
    /\ scan_pc \in {"done", "failed"}
    /\ log' = IF scan_pc = "failed" THEN Append(log, "failed to scan project groups") ELSE log
    /\ worker_pc' = "exited"
    /\ UNCHANGED <<cmd, opts, directories, send_idx, threads, senders, recv_alive,
                   received, started_at, main_pc, resp, exit, stdout, renamed, checked_out>>
    /\ UNCHANGED <<jump_vars, display_vars, scan_vars>>
    /\ UNCHANGED env_vars

\* ---- select_and_return_first: the interactive front-end (Skim::run_with)
\* the front-end takes the next item from the channel
front_end_read ==
    /\ main_pc = "select"
    /\ Len(received) < Len(sent)
    /\ received' = Append(received, sent[Len(received) + 1])
    /\ UNCHANGED <<cmd, opts, directories, send_idx, threads, worker_pc, senders, log,
                   recv_alive, started_at, main_pc, resp, exit, stdout, renamed,
                   checked_out>>
    /\ UNCHANGED <<jump_vars, display_vars, scan_vars>>
    /\ UNCHANGED env_vars

\* what the downcast of the selected item gives: the Project, or the inner Target
selected_value(item) == IF cmd = "jump" THEN item.inner ELSE item

\* the user confirms one of the items shown; the receiver goes with the front-end
front_end_confirm ==
    /\ main_pc = "select"
    /\ \E i \in DOMAIN received : resp' = Some(selected_value(received[i]))
    /\ recv_alive' = FALSE
    /\ main_pc' = "selected"
    /\ UNCHANGED <<cmd, opts, directories, send_idx, threads, worker_pc, senders, log,
                   received, started_at, exit, stdout, renamed, checked_out>>
    /\ UNCHANGED <<jump_vars, display_vars, scan_vars>>
    /\ UNCHANGED env_vars

\* the user aborts (is_abort), accepts with nothing selected, or run_with gives None
front_end_abort ==
    /\ main_pc = "select"
    /\ resp' = None
    /\ recv_alive' = FALSE
    /\ main_pc' = "selected"
    /\ UNCHANGED <<cmd, opts, directories, send_idx, threads, worker_pc, senders, log,
                   received, started_at, exit, stdout, renamed, checked_out>>
    /\ UNCHANGED <<jump_vars, display_vars, scan_vars>>
    /\ UNCHANGED env_vars

\* search returns Ok(proj); dirs / preset: update_tmux_and_display_results
update_tmux_and_display_results ==
    /\ cmd \in {"preset", "dirs"}
    /\ main_pc = "selected"
    /\ resp # None
    /\ LET rename == IF opts.tmux_rename # None
                     THEN rename_tmux_default_window(tmux, unwrap(resp).title,
                                                     unwrap(opts.tmux_rename))
                     ELSE [tmux |-> tmux, result |-> "Ok", ran |-> FALSE]
       IN /\ tmux' = rename.tmux
          /\ renamed' = IF rename.ran THEN Append(renamed, unwrap(resp).title) ELSE renamed
          /\ stdout' = IF rename.result = "Ok" THEN Append(stdout, unwrap(resp).path)
                        ELSE stdout
          /\ exit' = rename.result
    /\ main_pc' = "returned"
    /\ UNCHANGED <<cmd, opts, directories, send_idx, threads, worker_pc, senders, log,
                   recv_alive, received, started_at, resp, checked_out>>
    /\ UNCHANGED <<jump_vars, display_vars, scan_vars>>
    /\ UNCHANGED <<document, loaded>>

\* search: anyhow::bail!("no item was selected"); dirs / preset pass it on with `?`
search_bail ==
    /\ cmd \in {"preset", "dirs"}
    /\ main_pc = "selected"
    /\ resp = None
    /\ exit' = "Err"
    /\ main_pc' = "returned"
    /\ UNCHANGED <<cmd, opts, directories, send_idx, threads, worker_pc, senders, log,
                   recv_alive, received, started_at, resp, stdout, renamed, checked_out>>
    /\ UNCHANGED <<jump_vars, display_vars, scan_vars>>
    /\ UNCHANGED env_vars

\* ----------------------------------------------- cmd/gitjump/mod.rs: jump
\* jump: `for t in targets { send.send(item) }`, on the calling thread
jump_send ==
    /\ cmd = "jump"
    /\ main_pc = "send"
    /\ send_idx <= Len(results)
    /\ sent' = Append(sent, SkimGitTarget_new(results[send_idx]))
    /\ senders' = Append(senders, [by |-> MAIN, ok |-> TRUE])
    /\ send_idx' = send_idx + 1
    /\ UNCHANGED <<cmd, opts, directories, threads, worker_pc, log, recv_alive, received,
                   started_at, main_pc, resp, exit, stdout, renamed, checked_out>>
    /\ UNCHANGED <<fs, queue, scan, scan_pc, visited>>
    /\ UNCHANGED <<jump_vars, display_vars>>
    /\ UNCHANGED env_vars

\* jump: every Target is sent; select_and_return_first(args, recv) is entered
jump_select ==
    /\ cmd = "jump"
    /\ main_pc = "send"
    /\ send_idx > Len(results)
    /\ main_pc' = "select"
    /\ started_at' = Some(Len(sent))
    /\ UNCHANGED <<cmd, opts, directories, send_idx, threads, worker_pc, senders, log,
                   recv_alive, received, resp, exit, stdout, renamed, checked_out>>
    /\ UNCHANGED <<jump_vars, display_vars, scan_vars>>
    /\ UNCHANGED env_vars

\* jump: None => log::warn!("no selection was made"); return Ok(())
jump_no_selection ==
    /\ cmd = "jump"
    /\ main_pc = "selected"
    /\ resp = None
    /\ log' = Append(log, "no selection was made")
    /\ exit' = "Ok"
    /\ main_pc' = "returned"
    /\ UNCHANGED <<cmd, opts, directories, send_idx, threads, worker_pc, senders,
                   recv_alive, received, started_at, resp, stdout, renamed, checked_out>>
    /\ UNCHANGED <<jump_vars, display_vars, scan_vars>>
    /\ UNCHANGED env_vars

\* checkout_target: the repository it leaves and the Result it returns.
\* With a first branch: find_branch?, peel_to_tree?, checkout_tree?, name()
\* ok_or?, set_head?; without one: find_object?, checkout_tree?.
checkout_target(r, t) ==
    IF t.branches # <<>>
    THEN LET b == t.branches[1]
             branch == find_branch(r, b.name, b.branch_type)
         IN IF branch = None \/ unwrap(branch).tip = None
            THEN [repo |-> r, result |-> "Err"]
            ELSE IF checkout_tree(r, unwrap(unwrap(branch).tip)) = None
            THEN [repo |-> r, result |-> "Err"]
            ELSE IF reference_name(unwrap(branch)) = None
            THEN [repo |-> unwrap(checkout_tree(r, unwrap(unwrap(branch).tip))),
                  result |-> "Err"]
            ELSE [repo |-> set_head(unwrap(checkout_tree(r, unwrap(unwrap(branch).tip))),
                                    unwrap(reference_name(unwrap(branch)))),
                  result |-> "Ok"]
    ELSE IF find_object(r, t.commit.id) = None
         THEN [repo |-> r, result |-> "Err"]
    ELSE IF checkout_tree(r, t.commit.id) = None
         THEN [repo |-> r, result |-> "Err"]
    ELSE [repo |-> unwrap(checkout_tree(r, t.commit.id)), result |-> "Ok"]

\* jump: checkout_target(&repo, &target)?; Ok(())
jump_checkout ==
    /\ cmd = "jump"
    /\ main_pc = "selected"
    /\ resp # None
    /\ repo' = checkout_target(repo, unwrap(resp)).repo
    /\ exit' = checkout_target(repo, unwrap(resp)).result
    /\ checked_out' = Append(checked_out, unwrap(resp))
    /\ main_pc' = "returned"
    /\ UNCHANGED <<cmd, opts, directories, send_idx, threads, worker_pc, senders, log,
                   recv_alive, received, started_at, resp, stdout, renamed>>
    /\ UNCHANGED <<args, unit, pc, idx, target_map, results>>
    /\ UNCHANGED <<display_vars, scan_vars>>
    /\ UNCHANGED env_vars

\* ---- checkout_target on any Target
CheckoutRefs == {RefHeadsA, RefHeadsB, RefOriginA}
\* Targets of any commit with no, one or several branches
CheckoutTargets ==
    {JumpTarget(c, DefaultTime[c], refs) :
        c \in {1, 2},
        refs \in {R \in SUBSET CheckoutRefs : Cardinality(R) <= MaxBranches}}
\* the repository at the time of the checkout: as it was listed or with its
\* branches deleted since, HEAD on either local branch, local changes or none
CheckoutRepos(t) ==
    {[JumpRepo(<<t>>) EXCEPT !.branches = IF present THEN @ ELSE <<>>,
                             !.head = Some(h),
                             !.dirty = d] :
        present \in BOOLEAN, h \in {RefHeadsA, RefHeadsB}, d \in BOOLEAN}

\* jump, after select_and_return_first has returned Some(target)
InitCheckout ==
    /\ cmd = "jump"
    /\ opts = [tmux_rename |-> None]
    /\ directories = <<>>
    /\ threads = {}
    /\ worker_pc = "unspawned"
    /\ log = <<>>
    /\ stdout = <<>>
    /\ renamed = <<>>
    /\ checked_out = <<>>
    /\ EnvIdle
    /\ exit = "running"
    /\ fs = [dirs |-> {ROOT_DIR}, gits |-> {}, files |-> {}, reversed |-> FALSE]
    /\ queue = <<>>
    /\ scan = None
    /\ scan_pc = "idle"
    /\ visited = {}
    /\ DisplayIdle
    /\ args = [use_author |-> FALSE, show_all_branches |-> FALSE]
    /\ unit = "build_targets.rs"
    /\ pc = "done"
    /\ idx = 1
    /\ target_map = <<>>
    /\ \E t \in CheckoutTargets :
          /\ results = <<t>>
          /\ repo \in CheckoutRepos(t)
          /\ sent = <<SkimGitTarget_new(t)>>
          /\ resp = Some(t)
    /\ senders = <<[by |-> MAIN, ok |-> TRUE]>>
    /\ send_idx = 2
    /\ started_at = Some(1)
    /\ received = sent
    /\ recv_alive = FALSE
    /\ main_pc = "selected"

NextCheckout == jump_checkout

\* preset, after search(..) returned the selected Project: the file named two
\* directories and no group, both were sent and shown, one was selected
InitTmux ==
    /\ cmd = "preset"
    /\ fs = [dirs |-> {ROOT_DIR}, gits |-> {}, files |-> {}, reversed |-> FALSE]
    /\ document = Some([projects |-> <<>>,
                        directories |-> <<[path |-> DIR_M, label |-> LABEL_S],
                                          [path |-> DIR_N]>>])
    /\ loaded = Some(read_config(document))
    /\ directories = read_config(document).directories
    /\ queue = <<>>
    /\ scan = None
    /\ scan_pc = "done"
    /\ visited = {}
    /\ sent = [i \in DOMAIN directories |->
                  from_manual_directory(directories[i].path, directories[i].label)]
    /\ senders = [i \in DOMAIN directories |-> [by |-> WORKER, ok |-> TRUE]]
    /\ send_idx = Len(directories) + 1
    /\ threads = {WORKER}
    /\ worker_pc = "exited"
    /\ log = <<>>
    /\ received = sent
    /\ started_at = Some(0)
    /\ recv_alive = FALSE
    /\ resp \in {Some(selected_value(received[i])) : i \in DOMAIN received}
    /\ main_pc = "selected"
    /\ exit = "running"
    /\ stdout = <<>>
    /\ renamed = <<>>
    /\ checked_out = <<>>
    /\ opts \in {[tmux_rename |-> r] : r \in TmuxRenames}
    /\ tmux \in TmuxEnvs
    /\ JumpIdle
    /\ DisplayIdle

NextTmux == update_tmux_and_display_results

NextSearch ==
    \/ search_spawn
    \/ search_select
    \/ send_manual_directories_send
    \/ send_manual_directories_bail
    \/ send_manual_directories_ok
    \/ scan_groups_pop
    \/ scan_groups_panic
    \/ scan_groups_found
    \/ scan_groups_send_failed
    \/ scan_groups_exhausted
    \/ scan_groups_return
    \/ worker_return
    \/ front_end_read
    \/ front_end_confirm
    \/ front_end_abort
    \/ update_tmux_and_display_results
    \/ search_bail
    \/ jump_send
    \/ jump_select
    \/ jump_no_selection
    \/ jump_checkout

vars == <<repo, args, unit, pc, idx, target_map, results, target, shown,
          now, time_shown,
          fs, queue, scan, scan_pc, sent, visited,
          cmd, opts, directories, send_idx, threads, worker_pc, senders, log,
          recv_alive, received, started_at, main_pc, resp, exit, stdout,
          renamed, checked_out, document, loaded, tmux>>

SpecJump == InitJump /\ [][NextJump]_vars
SpecDisplay == InitDisplay /\ [][NextDisplay]_vars
SpecTime == InitTime /\ [][NextDisplay]_vars
SpecScan == InitScan /\ [][NextScan]_vars
\* scan_groups runs on a thread of its own, which is scheduled as long as it
\* has a step to take: weak fairness of NextScan.  This is WF_vars(NextScan)
\* written out, []<>~ENABLED <<NextScan>>_vars \/ []<><<NextScan>>_vars, with
\* the value of ENABLED <<NextScan>>_vars in its place: under SpecScan the
\* receiver is held and the patterns compile, so scan_groups has a step to
\* take exactly as long as it has not returned.
FairSpecScan == SpecScan /\ ([]<>(scan_pc = "done") \/ []<><<NextScan>>_vars)
SpecSearch == InitSearch /\ [][NextSearch]_vars
SpecCheckout == InitCheckout /\ [][NextCheckout]_vars
SpecConfig == InitConfig /\ [][NextConfig]_vars
SpecTmux == InitTmux /\ [][NextTmux]_vars

\* ================================================================ claims
items_of(r) == {r.branches[i] : i \in DOMAIN r.branches}
range(s) == {s[i] : i \in DOMAIN s}
returned == pc = "done"

\* the filter as the specification words it: author equality, not origin/HEAD
passes_filter(item) ==
    /\ args.use_author => repo.author[unwrap(item.tip)] = repo.user_name
    /\ item.ref # ORIGIN_HEAD

tip_resolves_and_passes(item) == item.ok /\ item.tip # None /\ passes_filter(item)
named_tip_resolves_and_passes(item) == is_utf8(item.ref) /\ tip_resolves_and_passes(item)

\* one Target per distinct tip of the branches in `inc`, no commit id twice
one_target_per_tip(inc) ==
    /\ \A i, j \in DOMAIN results : i # j => results[i].commit.id # results[j].commit.id
    /\ {results[i].commit.id : i \in DOMAIN results} = {unwrap(b.tip) : b \in inc}

refs_at(inc, c) == {b.ref : b \in {x \in inc : x.tip = Some(c)}}
listed_refs(t) == {t.branches[k].ref_name : k \in DOMAIN t.branches}
duplicate_free(t) == Cardinality(listed_refs(t)) = Len(t.branches)

truncating == unit = "gitjump.rs" /\ ~args.show_all_branches

C2_SortedByTimeDescending ==
    returned =>
        /\ \A i, j \in DOMAIN results :
              i < j => results[i].commit.time >= results[j].commit.time
        /\ \A i, j \in DOMAIN results :
              GitTarget_cmp(results[i], results[j])
                  = int_cmp(results[i].commit.time, results[j].commit.time)

\* two Targets with different timestamps, the newer one having the smaller id
C2_Witness ==
    /\ returned
    /\ Len(results) = 2
    /\ results[1].commit.time > results[2].commit.time
    /\ results[1].commit.id < results[2].commit.id

the_item(ref) == CHOOSE b \in items_of(repo) : b.ok /\ b.ref = ref
primary_tip ==
    IF \E b \in items_of(repo) : b.ok /\ b.ref = ORIGIN_HEAD /\ b.tip # None
    THEN the_item(ORIGIN_HEAD).tip
    ELSE None

\* C6: for every returned Target: if the primary reference resolves and
\* merge_base(primary, commit) succeeds then is_merged = (merge_base = commit)
\* and is_primary = (primary = commit); otherwise both flags are false.
C6_Flags ==
    returned =>
        \A i \in DOMAIN results :
            LET t == results[i]
                base == IF primary_tip = None THEN None
                        ELSE merge_base(repo, unwrap(primary_tip), t.commit.id)
            IN IF base # None
               THEN /\ t.is_merged = (unwrap(base) = t.commit.id)
                    /\ t.is_primary = (unwrap(primary_tip) = t.commit.id)
               ELSE ~t.is_merged /\ ~t.is_primary

\* a Target merged into the primary reference that is not its tip
C6_Witness ==
    /\ returned
    /\ \E i \in DOMAIN results : results[i].is_merged /\ ~results[i].is_primary

\* the upstream tip of a listed branch, None when it has no resolvable upstream
upstream_tip(b) ==
    LET item == the_item(b.ref_name)
    IN IF item.upstream = None THEN None
       ELSE IF \E u \in items_of(repo) : u.ok /\ u.ref = unwrap(item.upstream)
            THEN the_item(unwrap(item.upstream)).tip
       ELSE None

all_listed == UNION {{<<target_map[c].commit.id, target_map[c].branches[k]>> :
                          k \in DOMAIN target_map[c].branches} : c \in DOMAIN target_map}

\* C7 (as claimed): Unique without resolvable upstream, Match on equal tips,
\* Ahead when merge-base is the upstream tip, Behind when the tips differ and
\* merge-base is the branch's own tip or the lookup fails, and Behind in no
\* other case.
C7_Claimed ==
    \A e \in all_listed :
        LET own == e[1]
            b == e[2]
            up == upstream_tip(b)
            base == IF up = None THEN None ELSE merge_base(repo, unwrap(up), own)
        IN /\ up = None => b.status = "Unique"
           /\ (up # None /\ unwrap(up) = own) => b.status = "Match"
           /\ (up # None /\ unwrap(up) # own /\ base = up) => b.status = "Ahead"
           /\ b.status = "Behind" <=>
                 (up # None /\ unwrap(up) # own /\ (base = None \/ base = Some(own)))

\* C7 (amended): Unique without resolvable upstream; Match on equal tips; Ahead
\* when the tips differ and merge-base is the upstream tip; Behind in every
\* remaining case with differing tips: the lookup fails or merge-base is any
\* commit other than the upstream tip (the own tip or a third commit).
C7_Amended ==
    \A e \in all_listed :
        LET own == e[1]
            b == e[2]
            up == upstream_tip(b)
            base == IF up = None THEN None ELSE merge_base(repo, unwrap(up), own)
        IN /\ b.status = "Unique" <=> up = None
           /\ b.status = "Match" <=> (up # None /\ unwrap(up) = own)
           /\ b.status = "Ahead" <=> (up # None /\ unwrap(up) # own /\ base = up)
           /\ b.status = "Behind" <=>
                 (up # None /\ unwrap(up) # own /\ (base = None \/ base # up))

\* a branch classified Behind whose history diverged from its upstream
C7_Witness ==
    \E e \in all_listed :
        /\ e[2].status = "Behind"
        /\ upstream_tip(e[2]) # None
        /\ merge_base(repo, unwrap(upstream_tip(e[2])), e[1]) \notin {None, Some(e[1])}

\* C8: when show_all_branches is false every returned Target retains exactly
\* one branch, the first of its sorted list; when it is true all are retained.
C8_ShowAllBranches ==
    returned =>
        \A i \in DOMAIN results :
            LET all == sort_branches(target_map[results[i].commit.id].branches)
            IN IF args.show_all_branches
               THEN results[i].branches = all
               ELSE results[i].branches = <<all[1]>>

\* the reasons for skipping a branch, for a branch the iterator yielded
skipped(item) ==
    \/ item.tip = None
    \/ ~is_utf8(item.ref)
    \/ args.use_author /\ repo.author[unwrap(item.tip)] # repo.user_name
    \/ item.ref = ORIGIN_HEAD

at_skipped_branch ==
    /\ pc = "build_branches"
    /\ idx <= Len(repo.branches)
    /\ repo.branches[idx].ok
    /\ skipped(repo.branches[idx])

C9_Filtered ==
    returned =>
        \A i \in DOMAIN results :
            /\ args.use_author => results[i].commit.author = repo.user_name
            /\ ORIGIN_HEAD \notin listed_refs(results[i])

\* C9: processing a skipped branch (tip unresolvable, name unreadable, author
\* rejected, refs/remotes/origin/HEAD) leaves the target map unchanged; so with
\* the author filter active every returned Target's author is the configured
\* name, and no branch list contains refs/remotes/origin/HEAD.
C9_SkipLeavesMap ==
    /\ [][at_skipped_branch => target_map' = target_map]_vars
    /\ []C9_Filtered

\* a Target exists and a later branch by another author was skipped
C9_Witness ==
    /\ returned
    /\ args.use_author
    /\ Len(repo.branches) = 2
    /\ repo.branches[1].tip # None /\ repo.author[unwrap(repo.branches[1].tip)] = repo.user_name
    /\ repo.branches[2].tip # None /\ repo.author[unwrap(repo.branches[2].tip)] # repo.user_name
    /\ Len(results) = 1

\* bytewise "sorts strictly before", stated without str_cmp
lex_less(a, b) ==
    \E k \in 1..(Len(a) + 1) :
        /\ k <= Len(b) + 1
        /\ SubSeq(a, 1, k - 1) = SubSeq(b, 1, k - 1)
        /\ \/ k = Len(a) + 1 /\ k <= Len(b)
           \/ k <= Len(a) /\ k <= Len(b) /\ a[k] < b[k]

in_branch_order(x, y) ==
    \/ x.branch_type = "Local" /\ y.branch_type = "Remote"
    \/ x.branch_type = y.branch_type /\ lex_less(x.ref_name, y.ref_name)
    \/ x.branch_type = y.branch_type /\ x.ref_name = y.ref_name /\ (x.head => y.head)

\* C3: after aggregation every Target's branch list has every local branch
\* before every remote-tracking branch, branches of one kind in reference-name
\* order, and of two branches with equal reference names the current (HEAD)
\* one sorts last.
C3_BranchOrder ==
    returned =>
        \A i \in DOMAIN results :
            LET bs == results[i].branches
            IN /\ \A k, l \in DOMAIN bs : k < l => in_branch_order(bs[k], bs[l])
               /\ \A k \in DOMAIN bs :
                     /\ GitBranch_cmp([bs[k] EXCEPT !.head = FALSE],
                                      [bs[k] EXCEPT !.head = TRUE]) = "Less"
                     /\ GitBranch_cmp([bs[k] EXCEPT !.head = TRUE],
                                      [bs[k] EXCEPT !.head = FALSE]) = "Greater"

\* a remote-tracking branch enumerated before a local branch of the same commit
C3_Witness ==
    /\ returned
    /\ \E i \in DOMAIN results :
          /\ Len(results[i].branches) = 2
          /\ results[i].branches[1].branch_type = "Local"
          /\ results[i].branches[2].branch_type = "Remote"
          /\ target_map[results[i].commit.id].branches[1].branch_type = "Remote"

rendered_names == {unwrap(shown).branches[k].name : k \in DOMAIN unwrap(shown).branches}
listed == range(unwrap(target).branches)

\* remote is refs/remotes/<remote>/<n> for the local branch refs/heads/<n>
exact_counterpart(local, remote) ==
    /\ starts_with(local.ref_name, REFS_HEADS)
    /\ starts_with(remote.ref_name, REFS_REMOTES)
    /\ LET n == unwrap(strip_prefix(local.ref_name, REFS_HEADS))
           rest == unwrap(strip_prefix(remote.ref_name, REFS_REMOTES))
       IN /\ ends_with(rest, SLASH \o n)
          /\ Len(rest) > Len(n) + 1
          /\ \A k \in 1..(Len(rest) - Len(n) - 1) : rest[k] # 47

\* C4: when a Target's sorted branch list holds a local branch and its exact
\* remote counterpart, the rendered line holds the local name and not the
\* counterpart, whatever was rendered in between.
C4_CounterpartCollapsed ==
    shown # None =>
        \A l, r \in listed :
            exact_counterpart(l, r) =>
                l.name \in rendered_names /\ r.name \notin rendered_names

\* a, b and origin/a on one Target: origin/a is dropped although b came last
C4_Witness ==
    /\ shown # None
    /\ {x.ref_name : x \in listed} = {RefHeadsA, RefHeadsB, RefOriginA}
    /\ Len(unwrap(shown).branches) = 2

\* C5: a remote-tracking branch is suppressed only if it is the exact
\* counterpart refs/remotes/<remote>/<n> of an already rendered local branch
\* refs/heads/<n>; every other branch of the Target is rendered.
C5_OnlyCounterpartSuppressed ==
    shown # None =>
        \A b \in listed :
            b.name \notin rendered_names =>
                \E l \in listed : l.name \in rendered_names /\ exact_counterpart(l, b)

is_below(dir, path) == starts_with(path, dir \o SLASH)
all_dirs == fs.dirs \cup {join(d, DOT_GIT) : d \in fs.gits}

\* C10 (as claimed): during a scan, a directory whose full path matches one of
\* the group's exclusion patterns is never yielded, and no directory of its
\* subtree is visited or yielded.
C10_Claimed ==
    \A v \in visited :
        \A d \in all_dirs :
            (/\ d = v.root \/ is_below(v.root, d)
             /\ regex_set_is_match(v.exclude, d))
            => /\ ~(v.path = d /\ v.yielded)
               /\ ~(is_below(d, v.path) /\ v.path \in all_dirs)

\* C10 (amended): the same for every directory other than the scan's own root,
\* which is skipped before the exclusion patterns are tried and whose subtree
\* is walked.
C10_Amended ==
    \A v \in visited :
        \A d \in all_dirs :
            (/\ is_below(v.root, d)
             /\ regex_set_is_match(v.exclude, d))
            => /\ ~(v.path = d /\ v.yielded)
               /\ ~(is_below(d, v.path) /\ v.path \in all_dirs)

\* a scan that ended, reached an excluded directory holding a repository below
\* it that matches no pattern itself, and yielded some other repository
C10_Witness ==
    /\ scan_pc = "done"
    /\ sent # <<>>
    /\ \E v \in visited :
          /\ v.path # v.root
          /\ regex_set_is_match(v.exclude, v.path)
          /\ \E g \in fs.gits :
                is_below(v.path, g) /\ ~regex_set_is_match(v.exclude, g)

\* ------------------------------------------------------------------ C20
\* C20: the branch part of a rendered line is GREY (muted) exactly when the
\* Target is merged and is not the primary tip; otherwise it is Yellow
\* (highlighted), also for a merged Target that is the primary tip.
C20_BranchColour ==
    shown # None =>
        LET t == unwrap(target)
        IN /\ unwrap(shown).color \in {"GREY", "Yellow"}
           /\ unwrap(shown).color = "GREY" <=> (t.is_merged /\ ~t.is_primary)

C20_Witness ==
    /\ shown # None
    /\ unwrap(target).is_merged
    /\ unwrap(target).is_primary
    /\ unwrap(shown).color = "Yellow"

\* ------------------------------------------------------------------ C17
\* C17: a per-item failure (a branch that cannot be read while enumerating, an
\* unreadable name, a tip that does not peel, a failed merge-base lookup) never
\* aborts build_targets: it returns Ok with the Targets of all remaining
\* branches.
C17_PerItemFailureNeverAborts ==
    /\ pc # "failed"
    /\ returned =>
          {results[i].commit.id : i \in DOMAIN results} =
              {unwrap(b.tip) : b \in {x \in items_of(repo) : named_tip_resolves_and_passes(x)}}

\* ------------------------------------------------------------------ C11
\* the scans that yielded `path`, as visit records
yields_of(path) == {v \in visited : v.yielded /\ v.path = path}
\* a repository strictly inside the repository q
nested_in(q, n) == n \in fs.gits /\ is_below(q, n)
\* n is nested in q with no other repository between them
directly_nested_in(q, n) ==
    nested_in(q, n) /\ ~\E m \in fs.gits : is_below(q, m) /\ is_below(m, n)
\* no directory on the way from q down to n (n included) matches `exclude`
open_way(exclude, q, n) ==
    \A d \in fs.dirs :
        (is_below(q, d) /\ (d = n \/ is_below(d, n))) => ~regex_set_is_match(exclude, d)
sent_at(path) == {k \in DOMAIN sent : sent[k].path = path}

\* C11: within one scan the walker never goes below a directory it yielded, so a
\* repository nested in a yielded one is not yielded by that scan. When the
\* scan is over: with recurse = true every repository directly nested in a
\* yielded repository (and not cut off by an exclusion pattern) has been yielded
\* by the later scan rooted at that repository and sent with the type label
\* parent.typename/parent.title; with recurse = false no repository nested in a
\* candidate was ever yielded.
C11_NestedRepositories ==
    /\ \A v, w \in visited : (v.yielded /\ w.root = v.root) => ~is_below(v.path, w.path)
    /\ \A v \in visited :
          (v.yielded /\ ~v.recurse) =>
              ~\E q \in fs.gits : is_below(v.root, q) /\ is_below(q, v.path)
    /\ scan_pc = "done" =>
          \A v \in visited : \A n \in fs.gits :
              (v.yielded /\ v.recurse /\ directly_nested_in(v.path, n)
                  /\ open_way(v.exclude, v.path, n)) =>
                  /\ \E w \in yields_of(n) : w.root = v.path
                  /\ \E k \in sent_at(n) : \E j \in sent_at(v.path) :
                        /\ j < k
                        /\ sent[k].typename = sent[j].typename \o SLASH \o sent[j].title

C11_Witness ==
    /\ scan_pc = "done"
    /\ \E v \in visited : \E n \in fs.gits :
          /\ v.yielded /\ v.recurse /\ directly_nested_in(v.path, n)
          /\ \E k \in sent_at(n) : sent[k].typename = TITLE_G \o SLASH \o NAME_A

\* ------------------------------------------------------------------ C18
\* a step of the running scan that sends a Project
sends_scanned == scan # None /\ Len(sent') = Len(sent) + 1
just_sent == sent'[Len(sent')]
pattern_mismatch == captures_1(unwrap(scan).group_config.extract, just_sent.path) = None

\* C18 (as claimed): a discovered repository whose path the group's extraction
\* pattern does not match is sent with type "unknown" and the whole path as
\* title, whether or not the queue entry carries a parent.
C18_Claimed ==
    [][(sends_scanned /\ pattern_mismatch) =>
          /\ just_sent.typename = UNKNOWN
          /\ just_sent.title = just_sent.path]_vars

\* C18 (amended): such a repository is sent with the whole path as title; its
\* type is "unknown" when the queue entry has no parent and
\* parent.typename/parent.title when it has one.
C18_Amended ==
    [][(sends_scanned /\ pattern_mismatch) =>
          /\ just_sent.title = just_sent.path
          /\ just_sent.typename =
                IF unwrap(scan).parent = None THEN UNKNOWN
                ELSE unwrap(unwrap(scan).parent).typename \o SLASH
                         \o unwrap(unwrap(scan).parent).title]_vars

\* both cases were sent: "unknown" from the configured root, and the parent's
\* label from a scan that recursion started
C18_Witness ==
    /\ \E k \in DOMAIN sent : sent[k].typename = UNKNOWN /\ sent[k].title = sent[k].path
    /\ \E k \in DOMAIN sent :
          /\ sent[k].title = sent[k].path
          /\ sent[k].typename = UNKNOWN \o SLASH \o join(ROOT_DIR, NAME_A)

\* ------------------------------------------------------------------ C19
\* C19: every Project sent on the channel has a non-empty title, whatever the
\* extraction pattern (one capture group) and the manual label.
C19_TitleNeverEmpty == \A k \in DOMAIN sent : sent[k].title # EMPTY_STR

\* ------------------------------------------------------------------ C12
project_cmd == cmd \in {"preset", "dirs"}
manual_projects ==
    [i \in DOMAIN directories |->
        from_manual_directory(directories[i].path, directories[i].label)]
is_prefix(a, b) == Len(a) <= Len(b) /\ SubSeq(b, 1, Len(a)) = a
\* the Projects sent behind the first m ones are repositories found by a scan
scanned_from(m) == \A k \in (m + 1)..Len(sent) : sent[k].path \in fs.gits

\* C12: the worker sends the manual directories in configuration order, all of
\* them before any scanned candidate, and the front-end receives the candidates
\* in the order they were sent.
C12_ManualFirstInOrder ==
    project_cmd =>
        /\ \E m \in 0..Len(directories) :
              /\ m <= Len(sent)
              /\ SubSeq(sent, 1, m) = SubSeq(manual_projects, 1, m)
              /\ scanned_from(m)
              /\ Len(sent) > m => m = Len(directories)
        /\ is_prefix(received, sent)

\* both manual directories, then a scanned repository, have reached the front-end
C12_Witness ==
    /\ project_cmd
    /\ Len(directories) = 2
    /\ Len(received) = 3
    /\ received[1].path = DIR_M
    /\ received[2].path = DIR_N
    /\ received[3].path \in fs.gits

\* ------------------------------------------------------------------ C13
a_send_failed == \E i \in DOMAIN senders : senders[i].by = WORKER /\ ~senders[i].ok

\* C13: once a send by the worker has failed, the worker does no more discovery
\* work (no directory is walked, nothing is queued), attempts no further send,
\* and what is left for it is to end; the failure is logged and the result of
\* the calling thread stays what the selection alone makes it.
C13_SendFailureEndsWorker ==
    [][a_send_failed =>
          /\ visited' = visited
          /\ queue' = queue
          /\ senders' = senders
          /\ sent' = sent
          /\ worker_pc' # worker_pc => worker_pc' = "exited"
          /\ exit' # exit => exit' = IF cmd = "jump" \/ resp # None THEN "Ok" ELSE "Err"]_vars

\* ------------------------------------------------------------------ C14
front_end_started == started_at # None
sent_by(t) == \A i \in DOMAIN senders : senders[i].by = t

C14_JumpReached == cmd = "jump" /\ front_end_started /\ Len(sent) = 2

\* ------------------------------------------------------------------ C15
\* C15: when the front-end returns no selected item, the command (dirs, preset
\* and jump alike) ends successfully and without side effect: nothing on
\* standard output, no tmux rename, no checkout.
C15_NoSelectionIsSilentSuccess ==
    (main_pc = "returned" /\ resp = None) =>
        /\ exit = "Ok"
        /\ stdout = <<>>
        /\ renamed = <<>>
        /\ checked_out = <<>>

\* ------------------------------------------------------------------ C16
\* a pattern of some group was found not to compile
compile_failed == worker_pc = "panicked"

\* C16: when an exclusion or extraction pattern of a group does not compile,
\* the search ends with an error for its caller and without partial results: no
\* candidate, manual directory or repository of an earlier group, has been
\* handed to the front-end.
C16_BadPatternAbortsSearch ==
    compile_failed =>
        /\ sent = <<>>
        /\ received = <<>>
        /\ main_pc = "returned" => exit = "Err"

\* ------------------------------------------------------------------ C21
age == now - unwrap(target).commit.time

\* C21: the time format of a commit depends only on d = now - commit time in
\* whole seconds: d < 120 seconds-ago, else d < 7200 minutes-ago, else
\* d < 14400 hours-ago, else d < 518400 weekday and time of day, else date and
\* time of day; the figures shown are d, d/60 and d/3600 truncated.
C21_TimeFormat ==
    time_shown # None =>
        LET d == age
            s == unwrap(time_shown)
        IN /\ s.style = IF d < 120 THEN "seconds_ago"
                        ELSE IF d < 7200 THEN "minutes_ago"
                        ELSE IF d < 14400 THEN "hours_ago"
                        ELSE IF d < 518400 THEN "weekday_time"
                        ELSE "date_time"
           /\ s.style = "seconds_ago" => s.n = d
           /\ s.style = "minutes_ago" => s.n * 60 <= d /\ d < (s.n + 1) * 60
           /\ s.style = "hours_ago" => s.n * 3600 <= d /\ d < (s.n + 1) * 3600

\* a commit exactly 120 seconds old, of a non-zero commit time, shown in minutes
C21_Witness ==
    /\ time_shown # None
    /\ unwrap(target).commit.time # 0
    /\ age = 120
    /\ unwrap(time_shown) = [style |-> "minutes_ago", n |-> 2]

\* both sides of the last threshold were rendered
C21_LastBoundary ==
    /\ time_shown # None
    /\ age = 518399
    /\ unwrap(time_shown).style = "weekday_time"

\* ------------------------------------------------------------------ C22
checkout_returned_ok ==
    cmd = "jump" /\ main_pc = "returned" /\ resp # None /\ exit = "Ok"

C22_BranchCheckedOut ==
    (checkout_returned_ok /\ unwrap(resp).branches # <<>>) =>
        /\ repo.work_tree = Some(unwrap(resp).commit.id)
        /\ repo.head = Some(unwrap(resp).branches[1].ref_name)
        /\ repo.head_detached = None

\* a Target with a local and a remote branch, selected while HEAD was on
\* another branch: the local one was checked out
C22_BranchWitness ==
    /\ checkout_returned_ok
    /\ Len(unwrap(resp).branches) = 2
    /\ unwrap(resp).branches[2].branch_type = "Remote"
    /\ repo.head = Some(RefHeadsB)
    /\ repo.work_tree = Some(2)

\* ------------------------------------------------------------------ C23
config_loaded == document # None /\ loaded # None /\ unwrap(loaded).ok
written(m, key) == key \in DOMAIN m

\* C23: in a configuration that loads, a `projects` or `directories` list left
\* out is empty, a group's `exclude` left out is empty and its `recurse` left
\* out is false, a manual directory without `label` has no label; every field
\* that is written is kept as it is, element by element.
C23_MissingFieldsDefault ==
    config_loaded =>
        LET doc == unwrap(document)
            cfg == unwrap(loaded)
        IN /\ ~written(doc, "projects") => cfg.projects = <<>>
           /\ ~written(doc, "directories") => cfg.directories = <<>>
           /\ written(doc, "projects") =>
                 /\ Len(cfg.projects) = Len(doc.projects)
                 /\ \A i \in DOMAIN doc.projects :
                       LET m == doc.projects[i]
                           g == cfg.projects[i]
                       IN /\ g.root = m.root /\ g.title = m.title /\ g.extract = m.extract
                          /\ g.exclude = IF written(m, "exclude") THEN m.exclude ELSE <<>>
                          /\ g.recurse = IF written(m, "recurse") THEN m.recurse ELSE FALSE
           /\ written(doc, "directories") =>
                 /\ Len(cfg.directories) = Len(doc.directories)
                 /\ \A i \in DOMAIN doc.directories :
                       LET m == doc.directories[i]
                           d == cfg.directories[i]
                       IN /\ d.path = m.path
                          /\ d.label = IF written(m, "label") THEN Some(m.label) ELSE None

\* a file without `directories`, whose first group has neither `exclude` nor
\* `recurse` and whose second group has both, has been loaded
C23_Witness ==
    /\ config_loaded
    /\ ~written(unwrap(document), "directories")
    /\ written(unwrap(document), "projects")
    /\ Len(unwrap(loaded).projects) = 2
    /\ DOMAIN unwrap(document).projects[1] = GroupKeys
    /\ unwrap(loaded).projects[1].recurse = FALSE
    /\ unwrap(loaded).projects[2].recurse = TRUE
    /\ unwrap(loaded).projects[2].exclude # <<>>
    /\ queue = initial_queue(unwrap(loaded).projects)

\* a file with a labelled and an unlabelled directory and no `projects`
C23_DirectoriesOnly ==
    /\ config_loaded
    /\ ~written(unwrap(document), "projects")
    /\ Len(unwrap(loaded).directories) = 2
    /\ unwrap(loaded).directories[1].label = Some(LABEL_S)
    /\ unwrap(loaded).directories[2].label = None

\* ------------------------------------------------------------------ C24
scan_groups_returned == scan_pc = "done"
\* a step of scan_groups that queues an entry for the recursion
spawns_entry == scan # None /\ Len(queue') > Len(queue)
spawned_entry == queue'[Len(queue')]
emitted_once == \A i, j \in DOMAIN sent : i # j => sent[i].path # sent[j].path

child_dirs(dir) == {d \in fs.dirs : \E name \in {NAME_A, NAME_B} : d = join(dir, name)}

\* C25: no scan yields its root; whatever it yields is a directory strictly
\* below its root, also when the root holds a `.git`; the root is passed over
\* before the exclusion patterns are tried, so a root that matches one of them
\* is walked all the same: when scan_groups has returned, every directory
\* right below a scanned root was visited by that scan.
C25_RootNeverYielded ==
    /\ \A v \in visited :
          /\ v.path = v.root => ~v.yielded
          /\ v.yielded => (is_below(v.root, v.path) /\ v.path \in fs.dirs)
    /\ scan_groups_returned =>
          \A v \in visited : \A d \in child_dirs(v.root) :
              \E w \in visited : w.root = v.root /\ w.exclude = v.exclude /\ w.path = d

\* the root holds a `.git` and matches the exclusion pattern `r$`; the scan
\* has visited it, not yielded it, and yielded a repository below it
C25_Witness ==
    /\ scan_groups_returned
    /\ ROOT_DIR \in fs.gits
    /\ \E v \in visited :
          /\ v.root = ROOT_DIR /\ v.path = ROOT_DIR /\ ~v.yielded
          /\ regex_set_is_match(v.exclude, ROOT_DIR)
    /\ \E w \in visited : w.root = ROOT_DIR /\ w.yielded

\* ------------------------------------------------------------------ C26
\* the step that reports a selection with --tmux-rename given
reports_selection == main_pc = "selected" /\ main_pc' = "returned" /\ opts.tmux_rename # None
window_renamed ==
    /\ renamed' = Append(renamed, unwrap(resp).title)
    /\ tmux' = [tmux EXCEPT !.window_name = unwrap(resp).title]
window_left_alone == renamed' = renamed /\ tmux' = tmux
path_printed == stdout' = Append(stdout, unwrap(resp).path)
\* the name a fresh window has: the file name of $SHELL, if there is one
default_shell_name == get_default_tmux_window_name(tmux)
name_differs ==
    \/ default_shell_name = None
    \/ trim(tmux.window_name) # unwrap(default_shell_name)

\* C26: when a selection is reported with --tmux-rename given: outside a tmux
\* session the window is left alone and the step is Ok; in a session whose
\* tmux answers, Force renames the window to the title of the project, and
\* DefaultOnly leaves it alone exactly when it has several panes and its name
\* is not the default shell name (or there is no such name), renaming it
\* otherwise; the path is printed exactly when the step is Ok, and a step that
\* fails renames nothing.
C26_TmuxRename ==
    [][reports_selection =>
          /\ ~tmux.TMUX => (window_left_alone /\ exit' = "Ok")
          /\ (tmux.TMUX /\ tmux.server = "up" /\ opts.tmux_rename = Some("Force"))
                => (window_renamed /\ exit' = "Ok")
          /\ (tmux.TMUX /\ tmux.server = "up" /\ opts.tmux_rename = Some("DefaultOnly"))
                => /\ exit' = "Ok"
                   /\ IF tmux.panes > 1 /\ name_differs
                      THEN window_left_alone ELSE window_renamed
          /\ exit' \in {"Ok", "Err"}
          /\ exit' = "Ok" => path_printed
          /\ exit' = "Err" => (stdout' = stdout /\ window_left_alone)]_vars

\* DefaultOnly in a window of several panes that still has the name of the
\* shell: it was renamed to the title, and the path was printed
C26_Witness ==
    /\ main_pc = "returned"
    /\ opts.tmux_rename = Some("DefaultOnly")
    /\ tmux.TMUX
    /\ tmux.panes > 1
    /\ renamed = <<unwrap(resp).title>>
    /\ tmux.window_name = unwrap(resp).title
    /\ stdout = <<unwrap(resp).path>>
    /\ exit = "Ok"

====
